---- MODULE Spec2Model ----
(***************************************************************************)
(* Model of the profile dashboard: the SVG chart renderers of graphs.js,   *)
(* the shared tooltip, and the page lifecycle of the profile page          *)
(* (loadProfile, the five joined fetches, the graph timer, the resize      *)
(* listener), and the login page of auth.js with the navigation between    *)
(* the two pages.                                                          *)
(*                                                                         *)
(* In the renderers JavaScript numbers are modelled as exact rationals     *)
(* extended with NaN and the two infinities, without IEEE rounding and     *)
(* without the sign of zero.  The computations whose rounding matters (the *)
(* slice angles, the points of the circle at the quarter turns) are also   *)
(* modelled in IEEE 754 double arithmetic, bit for bit.  Markup strings    *)
(* (tooltip bodies, placeholder paragraphs) are represented by the data    *)
(* they interpolate.                                                       *)
(***************************************************************************)
EXTENDS Integers, Sequences, FiniteSets, TLC

\* ------------------------------------------------------------------------
\* JavaScript values
\* ------------------------------------------------------------------------

Abs(i) == IF i < 0 THEN -i ELSE i

RECURSIVE GCD(_, _)
GCD(a, b) == IF b = 0 THEN a ELSE GCD(b, a % b)

\* a finite number n/d in lowest terms, d > 0
Fin(n, d) ==
    LET s == IF d < 0 THEN -1 ELSE 1
        g == GCD(Abs(n), Abs(d))
    IN  [k |-> "fin", n |-> (s * n) \div g, d |-> (s * d) \div g]

I(i) == [k |-> "fin", n |-> i, d |-> 1]

NaN == [k |-> "nan", n |-> 0, d |-> 1]

PosInf == [k |-> "pinf", n |-> 1, d |-> 1]

NegInf == [k |-> "ninf", n |-> -1, d |-> 1]

IsFinite(a) == a.k = "fin"

\* sign of a number that is not NaN: -1, 0, 1
Sign(a) ==
    CASE a.k = "pinf" -> 1
      [] a.k = "ninf" -> -1
      [] OTHER -> IF a.n > 0 THEN 1 ELSE IF a.n < 0 THEN -1 ELSE 0

InfOfSign(s) == IF s > 0 THEN PosInf ELSE NegInf

\* a + b
NumAdd(a, b) ==
    CASE a.k = "nan" \/ b.k = "nan" -> NaN
      [] IsFinite(a) /\ IsFinite(b) -> Fin(a.n * b.d + b.n * a.d, a.d * b.d)
      [] IsFinite(a) -> b
      [] IsFinite(b) -> a
      [] OTHER -> IF a.k = b.k THEN a ELSE NaN

\* -a
NumNeg(a) ==
    CASE a.k = "nan" -> NaN
      [] a.k = "pinf" -> NegInf
      [] a.k = "ninf" -> PosInf
      [] OTHER -> [k |-> "fin", n |-> -a.n, d |-> a.d]

\* a - b
NumSub(a, b) == NumAdd(a, NumNeg(b))

\* a * b
NumMul(a, b) ==
    CASE a.k = "nan" \/ b.k = "nan" -> NaN
      [] IsFinite(a) /\ IsFinite(b) -> Fin(a.n * b.n, a.d * b.d)
      [] OTHER -> IF Sign(a) * Sign(b) = 0 THEN NaN
                  ELSE InfOfSign(Sign(a) * Sign(b))

\* a / b: 0/0 is NaN, x/0 is an infinity, nothing throws
NumDiv(a, b) ==
    CASE a.k = "nan" \/ b.k = "nan" -> NaN
      [] IsFinite(a) /\ IsFinite(b) ->
            IF b.n = 0
            THEN IF a.n = 0 THEN NaN ELSE InfOfSign(Sign(a))
            ELSE Fin(a.n * b.d, a.d * b.n)
      [] IsFinite(b) -> InfOfSign(Sign(a) * (IF Sign(b) < 0 THEN -1 ELSE 1))
      [] IsFinite(a) -> I(0)
      [] OTHER -> NaN

\* a < b (false when either is NaN)
NumLt(a, b) ==
    /\ a.k # "nan"
    /\ b.k # "nan"
    /\ CASE IsFinite(a) /\ IsFinite(b) -> a.n * b.d < b.n * a.d
         [] OTHER -> Sign(NumSub(a, b)) < 0 /\ a.k # b.k

\* a > b
NumGt(a, b) == NumLt(b, a)

\* a <= b
NumLe(a, b) == a.k # "nan" /\ b.k # "nan" /\ ~NumLt(b, a)

\* Math.floor(a)
MathFloor(a) == IF IsFinite(a) THEN I(a.n \div a.d) ELSE a

\* Math.min(a, b)
MathMin(a, b) ==
    IF a.k = "nan" \/ b.k = "nan" THEN NaN
    ELSE IF NumLt(b, a) THEN b ELSE a

\* Math.max(...s): -Infinity for no argument, NaN if any argument is NaN
RECURSIVE MathMax(_)
MathMax(s) ==
    IF s = <<>> THEN NegInf
    ELSE LET m == MathMax(Tail(s))
             h == Head(s)
         IN  IF h.k = "nan" \/ m.k = "nan" THEN NaN
             ELSE IF NumLt(h, m) THEN m ELSE h

\* an optional value: None for null / undefined / a missing field
None == <<>>

Some(x) == <<x>>

\* `x || 0` on an optional numeric field
OrZero(x) == IF x = None THEN 0 ELSE x[1]

\* ------------------------------------------------------------------------
\* IEEE 754 doubles, for the computations whose rounding a claim is about
\* ------------------------------------------------------------------------

RECURSIVE Pow2(_)
Pow2(n) == IF n = 0 THEN 1 ELSE 2 * Pow2(n - 1)

\* the base of the digits of a natural number of any size
Base == Pow2(15)

\* a natural number of any size: its digits in base 2^15, least significant
\* first, the last digit not 0 (<<>> is 0)
RECURSIVE BigOfNat(_)
BigOfNat(n) == IF n = 0 THEN <<>> ELSE <<n % Base>> \o BigOfNat(n \div Base)

RECURSIVE BigTrim(_)
BigTrim(b) ==
    IF b = <<>> \/ b[Len(b)] # 0 THEN b ELSE BigTrim(SubSeq(b, 1, Len(b) - 1))

\* b * k + carry for naturals k <= 2^15 and carry < 2^15
RECURSIVE BigMulNat(_, _, _)
BigMulNat(b, k, carry) ==
    IF b = <<>> THEN BigOfNat(carry)
    ELSE LET v == b[1] * k + carry
         IN  <<v % Base>> \o BigMulNat(Tail(b), k, v \div Base)

\* x + y + carry
RECURSIVE BigAdd(_, _, _)
BigAdd(x, y, carry) ==
    IF x = <<>> /\ y = <<>> THEN BigOfNat(carry)
    ELSE LET a == IF x = <<>> THEN 0 ELSE x[1]
             b == IF y = <<>> THEN 0 ELSE y[1]
             v == a + b + carry
         IN  <<v % Base>> \o BigAdd(IF x = <<>> THEN x ELSE Tail(x),
                                    IF y = <<>> THEN y ELSE Tail(y), v \div Base)

\* x < y
RECURSIVE BigLt(_, _)
BigLt(x, y) ==
    IF Len(x) # Len(y) THEN Len(x) < Len(y)
    ELSE IF x = <<>> THEN FALSE
    ELSE IF x[Len(x)] # y[Len(y)] THEN x[Len(x)] < y[Len(y)]
    ELSE BigLt(BigTrim(SubSeq(x, 1, Len(x) - 1)), BigTrim(SubSeq(y, 1, Len(y) - 1)))

\* x - y - borrow, for x >= y + borrow (high zero digits not removed)
RECURSIVE BigSubDigits(_, _, _)
BigSubDigits(x, y, borrow) ==
    IF x = <<>> THEN <<>>
    ELSE LET b == IF y = <<>> THEN 0 ELSE y[1]
             v == x[1] - b - borrow
         IN  <<v % Base>> \o BigSubDigits(Tail(x), IF y = <<>> THEN y ELSE Tail(y),
                                          IF v < 0 THEN 1 ELSE 0)

\* |x - y|
BigDiff(x, y) ==
    IF BigLt(x, y) THEN BigTrim(BigSubDigits(y, x, 0)) ELSE BigTrim(BigSubDigits(x, y, 0))

\* x * 2^n
BigShl(x, n) ==
    IF x = <<>> THEN x
    ELSE [i \in 1..(n \div 15) |-> 0] \o BigMulNat(x, Pow2(n % 15), 0)

\* digit i of x (from 1), 0 beyond its last digit
BigDigit(x, i) == IF i <= Len(x) THEN x[i] ELSE 0

\* floor(x / 2^n)
BigShr(x, n) ==
    LET q == n \div 15
        r == n % 15
    IN  BigTrim([i \in 1..(Len(x) - q) |->
                    (BigDigit(x, i + q) \div Pow2(r))
                    + (BigDigit(x, i + q + 1) % Pow2(r)) * Pow2(15 - r)])

\* bit i of x (from 0)
BigBit(x, i) == (BigDigit(x, (i \div 15) + 1) \div Pow2(i % 15)) % 2

\* number of bits of a natural below 2^15
RECURSIVE BitLen(_)
BitLen(n) == IF n = 0 THEN 0 ELSE 1 + BitLen(n \div 2)

\* number of bits of x
BigBits(x) == IF x = <<>> THEN 0 ELSE 15 * (Len(x) - 1) + BitLen(x[Len(x)])

\* a double that is not NaN or an infinity: sign s, significand m (of 53
\* bits, or <<>> for zero) and exponent e, of value s * m * 2^e
Dbl(s, m, e) == [s |-> s, m |-> m, e |-> e]

DblZero == Dbl(1, <<>>, 0)

\* round to nearest, ties to even: the double nearest to s * (m + f) * 2^e,
\* where 0 <= f < 1 and `sticky` tells whether f > 0 (exponent range not
\* modelled: no overflow, no subnormals)
RoundToDouble(s, m, e, sticky) ==
    LET len == BigBits(m)
        d == len - 53
        kept == BigShr(m, d)
        inexact == sticky \/ \E i \in 0..(d - 2) : BigBit(m, i) = 1
        up == BigBit(m, d - 1) = 1 /\ (inexact \/ BigBit(kept, 0) = 1)
        rounded == IF up THEN BigAdd(kept, <<1>>, 0) ELSE kept
    IN  IF len = 0 THEN DblZero
        ELSE IF len <= 53 THEN Dbl(s, BigShl(m, 53 - len), e - (53 - len))
        ELSE IF BigBits(rounded) > 53 THEN Dbl(s, BigShr(rounded, 1), e + d + 1)
        ELSE Dbl(s, rounded, e + d)

\* the double of an integer
DblOfInt(i) == RoundToDouble(IF i < 0 THEN -1 ELSE 1, BigOfNat(Abs(i)), 0, FALSE)

\* n digits of the expansion of r / t (0 <= r < t < 2^15) after the point,
\* and the remainder left
RECURSIVE LongDivision(_, _, _, _)
LongDivision(r, t, n, acc) ==
    IF n = 0 THEN [digits |-> acc, rem |-> r]
    ELSE LongDivision((r * Base) % t, t, n - 1, <<(r * Base) \div t>> \o acc)

\* a / t in double arithmetic, for a natural a and a natural t, 0 < t < 2^15:
\* the quotient to 75 bits after the point, rounded
DblDivNat(a, t) ==
    LET q == LongDivision(a % t, t, 5, <<>>)
    IN  RoundToDouble(1, BigTrim(q.digits \o BigOfNat(a \div t)), -75, q.rem # 0)

\* x * k in double arithmetic, for a natural k <= 2^15
DblMulNat(x, k) == RoundToDouble(x.s, BigTrim(BigMulNat(x.m, k, 0)), x.e, FALSE)

\* -x
DblNeg(x) == IF x.m = <<>> THEN x ELSE Dbl(-x.s, x.m, x.e)

\* x + y in double arithmetic
DblAdd(x, y) ==
    IF x.m = <<>> THEN y
    ELSE IF y.m = <<>> THEN x
    ELSE LET e == IF x.e < y.e THEN x.e ELSE y.e
             mx == BigShl(x.m, x.e - e)
             my == BigShl(y.m, y.e - e)
         IN  IF x.s = y.s THEN RoundToDouble(x.s, BigAdd(mx, my, 0), e, FALSE)
             ELSE IF mx = my THEN DblZero
             ELSE RoundToDouble(IF BigLt(mx, my) THEN y.s ELSE x.s, BigDiff(mx, my), e, FALSE)

\* x - y in double arithmetic
DblSub(x, y) == DblAdd(x, DblNeg(y))

\* x * 2^n (exact)
DblScale(x, n) == IF x.m = <<>> THEN x ELSE Dbl(x.s, x.m, x.e + n)

\* x * y for naturals of any size
RECURSIVE BigMul(_, _)
BigMul(x, y) ==
    IF y = <<>> THEN <<>>
    ELSE BigTrim(BigAdd(BigMulNat(x, y[1], 0), <<0>> \o BigMul(x, Tail(y)), 0))

\* x * y in double arithmetic
DblMul(x, y) ==
    IF x.m = <<>> \/ y.m = <<>> THEN DblZero
    ELSE RoundToDouble(x.s * y.s, BigMul(x.m, y.m), x.e + y.e, FALSE)

\* quotient and remainder of (r * 2^(15 * Len(x)) + x) / k, for 0 <= r < k <= 2^15
RECURSIVE BigDivNat(_, _, _)
BigDivNat(x, k, r) ==
    IF x = <<>> THEN [q |-> <<>>, rem |-> r]
    ELSE LET v == r * Base + x[Len(x)]
             rest == BigDivNat(SubSeq(x, 1, Len(x) - 1), k, v % k)
         IN  [q |-> Append(rest.q, v \div k), rem |-> rest.rem]

\* x / k in double arithmetic, for a natural k, 0 < k <= 2^15: the quotient
\* to 60 more bits than x has, rounded
DblOverNat(x, k) ==
    LET d == BigDivNat(BigShl(x.m, 60), k, 0)
    IN  RoundToDouble(x.s, BigTrim(d.q), x.e - 60, d.rem # 0)

\* |x| <= |y|
DblAbsLe(x, y) ==
    LET e == IF x.e < y.e THEN x.e ELSE y.e
    IN  ~BigLt(BigShl(y.m, y.e - e), BigShl(x.m, x.e - e))

\* ------------------------------------------------------------------------
\* Layout numbers of graphs.js
\* ------------------------------------------------------------------------

MarginTop == 20

MarginRight == 30

MarginLeft == 80

XPMarginBottom == 60

BarMarginBottom == 120

ChartHeight == 350

PieHeight == 300

PieInset == 40

MaxXLabels == 5

TopProjects == 15

BarGap == 10

\* ------------------------------------------------------------------------
\* Scene graph: what a container holds
\* ------------------------------------------------------------------------

\* a container that has never been rendered into
EmptyContent ==
    [tag |-> "none", text |-> "", chart |-> "", prims |-> <<>>, shapes |-> <<>>,
     pendingBars |-> 0]

\* container.innerHTML = '<p ...>message</p>'
Placeholder(message) ==
    [tag |-> "p", text |-> message, chart |-> "", prims |-> <<>>, shapes |-> <<>>,
     pendingBars |-> 0]

\* container.innerHTML = ''; container.appendChild(svg)
Svg(chart, prims, shapes, pendingBars) ==
    [tag |-> "svg", text |-> "", chart |-> chart, prims |-> prims, shapes |-> shapes,
     pendingBars |-> pendingBars]

\* number of children of the container element
ChildCount(content) == IF content.tag = "none" THEN 0 ELSE 1

\* a drawing primitive that is not hoverable: the numbers written to it
Prim(kind, nums) == [kind |-> kind, nums |-> nums]

\* a hoverable shape: the numbers written to its geometry attributes, its
\* arc flags, its fill, its `opacity` attribute ("" while unset), the tooltip data of its
\* mouseenter handler, whether that handler also sets the opacity, and the
\* numbers its animation timer will write
Shape(kind, nums, flags, fill, tip, dims, anim) ==
    [kind |-> kind, nums |-> nums, flags |-> flags, fill |-> fill, opacity |-> "",
     tip |-> tip, dims |-> dims, anim |-> anim]

\* what an entry point did: whether it threw, whether it assigned the
\* container's children (and to what), how many <style> elements it appended
\* to document.head, and whether it evaluated a division by zero
Outcome(threw, wrote, content, styles, zeroDiv) ==
    [threw |-> threw, wrote |-> wrote, content |-> content, styles |-> styles,
     zeroDiv |-> zeroDiv]

\* a no-data branch that returns without writing the placeholder
WritePlaceholder_ReturnOnly(exists, message) ==
    Outcome(FALSE, FALSE, EmptyContent, 0, FALSE)

\* `container.innerHTML = ...` in the no-data branch: a TypeError when the
\* container element is missing (the `!container` test leads into the branch)
WritePlaceholder(exists, message) ==
    IF exists
    THEN Outcome(FALSE, TRUE, Placeholder(message), 0, FALSE)
    ELSE Outcome(TRUE, FALSE, EmptyContent, 0, FALSE)

\* `!transactions || transactions.length === 0`
NoRecords(list) == list = None \/ Len(list[1]) = 0

\* `t.object?.name || 'Unknown'`
NameOrUnknown(name) == IF name = None \/ name[1] = "" THEN "Unknown" ELSE name[1]

\* ------------------------------------------------------------------------
\* createXPProgressGraph
\* ------------------------------------------------------------------------

RECURSIVE SumAmounts(_, _)
SumAmounts(tx, i) == IF i = 0 THEN 0 ELSE SumAmounts(tx, i - 1) + tx[i].amount

\* points that carry the amount of their own record only
DataPoints_OwnAmount(tx) ==
    [i \in 1..Len(tx) |->
        [date |-> tx[i].createdAt, xp |-> tx[i].amount,
         project |-> NameOrUnknown(tx[i].name), amount |-> tx[i].amount]]

\* dataPoints: the running sum of the amounts
DataPoints(tx) ==
    [i \in 1..Len(tx) |->
        [date |-> tx[i].createdAt, xp |-> SumAmounts(tx, i),
         project |-> NameOrUnknown(tx[i].name), amount |-> tx[i].amount]]

\* xScale(date)
XScale(date, minDate, maxDate, graphWidth) ==
    NumAdd(I(MarginLeft),
           NumMul(NumDiv(I(date - minDate), I(maxDate - minDate)), graphWidth))

\* yScale(xp)
YScale(xp, maxXP, graphHeight) ==
    NumSub(I(ChartHeight - XPMarginBottom),
           NumMul(NumDiv(I(xp), maxXP), I(graphHeight)))

\* index of the record labelled by the i-th x-axis label (i from 0)
XLabelIndex(i, n, numXLabels) ==
    MathFloor(NumDiv(I(i * (n - 1)), I(numXLabels - 1)))

\* dataPoints[index] is an element (otherwise `point.date` throws)
ValidIndex(index, n) == IsFinite(index) /\ index.n >= 0 /\ index.n < n

\* x1 y1 x2 y2 ... of a list of points
RECURSIVE Flatten(_)
Flatten(points) ==
    IF points = <<>> THEN <<>> ELSE Head(points) \o Flatten(Tail(points))

CreateXPProgressGraph(exists, width, transactions) ==
    IF ~exists \/ NoRecords(transactions)
    THEN WritePlaceholder(exists, "No XP data available")
    ELSE
    LET tx == transactions[1]
        n == Len(tx)
        dp == DataPoints(tx)
        graphWidth == I(width - MarginLeft - MarginRight)
        graphHeight == ChartHeight - MarginTop - XPMarginBottom
        maxXP == MathMax([i \in 1..n |-> I(dp[i].xp)])
        minDate == dp[1].date
        maxDate == dp[n].date
        X(i) == XScale(dp[i].date, minDate, maxDate, graphWidth)
        Y(i) == YScale(dp[i].xp, maxXP, graphHeight)
        base == I(ChartHeight - XPMarginBottom)
        numXLabels == IF n < MaxXLabels THEN n ELSE MaxXLabels
        index == [i \in 1..numXLabels |-> XLabelIndex(i - 1, n, numXLabels)]
        labels == [i \in 1..numXLabels |->
                     Prim("xlabel", <<X(index[i].n + 1),
                                      I(ChartHeight - XPMarginBottom + 20)>>)]
        area == Prim("area", <<I(MarginLeft), base>>
                             \o Flatten([i \in 1..n |-> <<X(i), Y(i)>>])
                             \o <<X(n), base>>)
        line == Prim("line", Flatten([i \in 1..n |-> <<X(i), Y(i)>>]))
        circles == [i \in 1..n |->
                      Shape("circle", <<X(i), Y(i)>>, <<>>, "#667eea",
                            <<dp[i].project, dp[i].xp, dp[i].amount, dp[i].date>>,
                            FALSE, <<>>)]
        zeroDiv == maxDate = minDate \/ maxXP = I(0) \/ numXLabels = 1
    IN  IF \E i \in 1..numXLabels : ~ValidIndex(index[i], n)
        THEN Outcome(TRUE, FALSE, EmptyContent, 0, zeroDiv)
        ELSE Outcome(FALSE, TRUE,
                     Svg("xpProgress", labels \o <<area, line>>, circles, 0),
                     1, zeroDiv)

\* ------------------------------------------------------------------------
\* createXPByProjectGraph
\* ------------------------------------------------------------------------

\* the integer an object key denotes when it is a canonical array index
\* ("3", "7"), -1 for any other key
KeyIndex(name) ==
    CASE name = "3" -> 3
      [] name = "7" -> 7
      [] OTHER -> -1

\* an aggregation that adds the amount of a later record of a group twice
RECURSIVE Aggregate_AddTwice(_, _)
Aggregate_AddTwice(tx, acc) ==
    IF tx = <<>> THEN acc
    ELSE LET name == NameOrUnknown(Head(tx).name)
             hit == {i \in 1..Len(acc) : acc[i][1] = name}
         IN  IF hit = {}
             THEN Aggregate_AddTwice(Tail(tx), Append(acc, <<name, Head(tx).amount>>))
             ELSE LET i == CHOOSE j \in hit : TRUE
                  IN  Aggregate_AddTwice(Tail(tx),
                          [acc EXCEPT ![i] = <<name, acc[i][2] + 2 * Head(tx).amount>>])

\* projectXP after the forEach: the keys in insertion order with their sums
RECURSIVE Aggregate(_, _)
Aggregate(tx, acc) ==
    IF tx = <<>> THEN acc
    ELSE LET name == NameOrUnknown(Head(tx).name)
             hit == {i \in 1..Len(acc) : acc[i][1] = name}
         IN  IF hit = {}
             THEN Aggregate(Tail(tx), Append(acc, <<name, Head(tx).amount>>))
             ELSE LET i == CHOOSE j \in hit : TRUE
                  IN  Aggregate(Tail(tx),
                                [acc EXCEPT ![i] = <<name, acc[i][2] + Head(tx).amount>>])

\* insertion of one entry into a list kept in ascending key-index order
RECURSIVE InsertByIndex(_, _)
InsertByIndex(e, s) ==
    IF s = <<>> THEN <<e>>
    ELSE IF KeyIndex(e[1]) < KeyIndex(Head(s)[1]) THEN <<e>> \o s
    ELSE <<Head(s)>> \o InsertByIndex(e, Tail(s))

RECURSIVE SortByIndex(_)
SortByIndex(s) ==
    IF s = <<>> THEN <<>> ELSE InsertByIndex(Head(s), SortByIndex(Tail(s)))

\* Object.entries(projectXP): array-index keys first, ascending, then the
\* other keys in insertion order
ObjectEntries(acc) ==
    SortByIndex(SelectSeq(acc, LAMBDA e : KeyIndex(e[1]) >= 0))
    \o SelectSeq(acc, LAMBDA e : KeyIndex(e[1]) < 0)

\* insertion of one entry behind every entry that does not compare after it
\* under (a, b) => b[1] - a[1]
RECURSIVE InsertDesc(_, _)
InsertDesc(e, s) ==
    IF s = <<>> THEN <<e>>
    ELSE IF e[2] > Head(s)[2] THEN <<e>> \o s
    ELSE <<Head(s)>> \o InsertDesc(e, Tail(s))

\* .sort((a, b) => b[1] - a[1]): a stable sort, descending by total
RECURSIVE SortDesc(_)
SortDesc(s) ==
    IF s = <<>> THEN <<>>
    ELSE InsertDesc(s[Len(s)], SortDesc(SubSeq(s, 1, Len(s) - 1)))

\* .slice(0, k)
Slice(s, k) == SubSeq(s, 1, IF Len(s) < k THEN Len(s) ELSE k)

\* sortedProjects
SortedProjects(tx) == Slice(SortDesc(ObjectEntries(Aggregate(tx, <<>>))), TopProjects)

\* getBarColor(value, maxValue)
GetBarColor(value, maxValue) ==
    LET ratio == NumDiv(value, maxValue)
    IN  IF NumGt(ratio, Fin(7, 10)) THEN "#48bb78"
        ELSE IF NumGt(ratio, Fin(4, 10)) THEN "#667eea"
        ELSE IF NumGt(ratio, Fin(2, 10)) THEN "#ed8936"
        ELSE "#f56565"

CreateXPByProjectGraph(exists, width, transactions) ==
    IF ~exists \/ NoRecords(transactions)
    THEN WritePlaceholder(exists, "No project data available")
    ELSE
    LET sorted == SortedProjects(transactions[1])
        n == Len(sorted)
        graphWidth == I(width - MarginLeft - MarginRight)
        graphHeight == I(ChartHeight - MarginTop - BarMarginBottom)
        base == I(ChartHeight - BarMarginBottom)
        maxXP == MathMax([i \in 1..n |-> I(sorted[i][2])])
        slot == NumDiv(graphWidth, I(n))
        barWidth == NumSub(slot, I(BarGap))
        X(i) == NumAdd(NumAdd(I(MarginLeft), NumMul(I(i - 1), slot)), I(5))
        barHeight(i) == NumMul(NumDiv(I(sorted[i][2]), maxXP), graphHeight)
        bars == [i \in 1..n |->
                   Shape("rect", <<X(i), base, barWidth, I(0)>>, <<>>,
                         GetBarColor(I(sorted[i][2]), maxXP),
                         <<sorted[i][1], sorted[i][2]>>,
                         TRUE, <<NumSub(base, barHeight(i)), barHeight(i)>>)]
        labels == [i \in 1..n |->
                     Prim("barlabel", <<NumAdd(X(i), NumDiv(barWidth, I(2))),
                                        NumAdd(base, I(15))>>)]
    IN  IF n = 0
        THEN Outcome(FALSE, TRUE, Placeholder("No project data available"), 0, FALSE)
        ELSE Outcome(FALSE, TRUE, Svg("xpByProject", labels, bars, n), 0,
                     maxXP = I(0))

\* the animation timer of bar i of a bar chart: rect.setAttribute('y', y);
\* rect.setAttribute('height', barHeight)
GrowBar(content, i) ==
    [content EXCEPT !.shapes[i].nums = <<@[1], content.shapes[i].anim[1], @[3],
                                         content.shapes[i].anim[2]>>,
                    !.pendingBars = @ - 1]

\* ------------------------------------------------------------------------
\* Slices
\* ------------------------------------------------------------------------

\* n mod 360 for a finite number, in [0, 360)
Mod360(a) == NumSub(a, NumMul(I(360), MathFloor(NumDiv(a, I(360)))))

\* sin of x degrees, 0 <= x <= 180, by Bhaskara's rational approximation;
\* exact at 0, 30, 90, 150 and 180 degrees
SinHalfTurn(x) ==
    LET p == NumMul(x, NumSub(I(180), x))
    IN  NumDiv(NumMul(I(4), p), NumSub(I(40500), p))

\* Math.sin of an angle given in degrees
SinDeg(a) ==
    IF ~IsFinite(a) THEN NaN
    ELSE LET x == Mod360(a)
         IN  IF NumLe(x, I(180)) THEN SinHalfTurn(x)
             ELSE NumNeg(SinHalfTurn(NumSub(x, I(180))))

\* Math.cos of an angle given in degrees
CosDeg(a) == SinDeg(NumAdd(a, I(90)))

\* polarToCartesian(cx, cy, radius, angle)
PolarToCartesian(cx, cy, radius, angle) ==
    LET angleDeg == NumSub(angle, I(90))
    IN  [x |-> NumAdd(cx, NumMul(radius, CosDeg(angleDeg))),
         y |-> NumAdd(cy, NumMul(radius, SinDeg(angleDeg)))]

\* a flag that is '1' from a span of half a turn on
LargeArc_FromHalfTurn(startAngle, endAngle) ==
    IF NumLt(NumSub(endAngle, startAngle), I(180)) THEN "0" ELSE "1"

\* largeArc of createPieSlice and createDonutSlice
LargeArc(startAngle, endAngle) ==
    IF NumLe(NumSub(endAngle, startAngle), I(180)) THEN "0" ELSE "1"

\* the path data of createPieSlice: M cx cy L start A r r 0 largeArc 0 end Z
CreatePieSlice(cx, cy, radius, startAngle, endAngle) ==
    LET start == PolarToCartesian(cx, cy, radius, endAngle)
        end == PolarToCartesian(cx, cy, radius, startAngle)
    IN  [nums |-> <<cx, cy, start.x, start.y, radius, radius, end.x, end.y>>,
         flags |-> <<LargeArc(startAngle, endAngle)>>]

\* the path data of createDonutSlice
CreateDonutSlice(cx, cy, radius, innerRadius, startAngle, endAngle) ==
    LET start == PolarToCartesian(cx, cy, radius, endAngle)
        end == PolarToCartesian(cx, cy, radius, startAngle)
        innerStart == PolarToCartesian(cx, cy, innerRadius, endAngle)
        innerEnd == PolarToCartesian(cx, cy, innerRadius, startAngle)
        largeArc == LargeArc(startAngle, endAngle)
    IN  [nums |-> <<start.x, start.y, radius, radius, end.x, end.y,
                    innerEnd.x, innerEnd.y, innerRadius, innerRadius,
                    innerStart.x, innerStart.y>>,
         flags |-> <<largeArc, largeArc>>]


\* ------------------------------------------------------------------------
\* createAuditRatioGraph, createPassFailGraph
\* ------------------------------------------------------------------------

\* `let currentAngle = -90; // Start from top`
StartAngle == I(-90)

\* (value / total) * 360
SliceAngle(value, total) == NumMul(NumDiv(I(value), I(total)), I(360))

\* the slices.forEach loop: one path per slice whose value is positive, each
\* starting at the angle where the slice drawn before it ended.  `slices` is
\* a list of <<label, value, color>>; `kind` is "donut" or "pie".
RECURSIVE DrawSlices(_, _, _, _, _, _, _)
DrawSlices(kind, slices, total, currentAngle, cx, cy, radius) ==
    IF slices = <<>> THEN <<>>
    ELSE LET slice == Head(slices)
             angle == SliceAngle(slice[2], total)
             endAngle == NumAdd(currentAngle, angle)
             path == IF kind = "donut"
                     THEN CreateDonutSlice(cx, cy, radius,
                                           NumMul(radius, Fin(6, 10)),
                                           currentAngle, endAngle)
                     ELSE CreatePieSlice(cx, cy, radius, currentAngle, endAngle)
         IN  IF slice[2] > 0
             THEN <<Shape(kind, path.nums, path.flags, slice[3],
                          <<slice[1], slice[2], total>>, TRUE, <<>>)>>
                  \o DrawSlices(kind, Tail(slices), total, endAngle, cx, cy, radius)
             ELSE DrawSlices(kind, Tail(slices), total, currentAngle, cx, cy, radius)

\* the svg of both binary-split charts
SplitChart(chart, kind, width, slices, total) ==
    LET centerX == NumDiv(I(width), I(2))
        centerY == NumDiv(I(PieHeight), I(2))
        radius == NumSub(NumDiv(MathMin(I(width), I(PieHeight)), I(2)), I(PieInset))
    IN  Svg(chart,
            <<Prim("center", <<centerX, NumSub(centerY, I(10))>>),
              Prim("caption", <<centerX, NumAdd(centerY, I(15))>>)>>,
            DrawSlices(kind, slices, total, StartAngle, centerX, centerY, radius),
            0)

\* createAuditRatioGraph without the `total === 0` branch
CreateAuditRatioGraph_NoZeroGuard(exists, width, auditData) ==
    IF ~exists \/ auditData = None
    THEN WritePlaceholder(exists, "No audit data available")
    ELSE
    LET totalUp == OrZero(auditData[1].totalUp)
        totalDown == OrZero(auditData[1].totalDown)
        total == totalUp + totalDown
    IN  Outcome(FALSE, TRUE,
                SplitChart("auditRatio", "donut", width,
                           <<<<"Audits Done", totalUp, "#48bb78">>,
                             <<"Audits Received", totalDown, "#667eea">>>>,
                           total),
                0, total = 0)

CreateAuditRatioGraph(exists, width, auditData) ==
    IF ~exists \/ auditData = None
    THEN WritePlaceholder(exists, "No audit data available")
    ELSE
    LET totalUp == OrZero(auditData[1].totalUp)
        totalDown == OrZero(auditData[1].totalDown)
        total == totalUp + totalDown
    IN  IF total = 0
        THEN Outcome(FALSE, TRUE, Placeholder("No audit data available"), 0, FALSE)
        ELSE Outcome(FALSE, TRUE,
                     SplitChart("auditRatio", "donut", width,
                                <<<<"Audits Done", totalUp, "#48bb78">>,
                                  <<"Audits Received", totalDown, "#667eea">>>>,
                                total),
                     0, total = 0)

\* number of results with a non-null grade that satisfies (or not) grade >= 1
CountGrades(results, pass) ==
    Cardinality({i \in 1..Len(results) :
                    /\ results[i].grade # None
                    /\ (results[i].grade[1] >= 1) = pass})

CreatePassFailGraph(exists, width, results) ==
    IF ~exists \/ NoRecords(results)
    THEN WritePlaceholder(exists, "No results data available")
    ELSE
    LET passCount == CountGrades(results[1], TRUE)
        failCount == CountGrades(results[1], FALSE)
        total == passCount + failCount
    IN  IF total = 0
        THEN Outcome(FALSE, TRUE, Placeholder("No results data available"), 0, FALSE)
        ELSE Outcome(FALSE, TRUE,
                     SplitChart("passFail", "pie", width,
                                <<<<"Pass", passCount, "#48bb78">>,
                                  <<"Fail", failCount, "#f56565">>>>,
                                total),
                     0, total = 0)

\* ------------------------------------------------------------------------
\* State
\* ------------------------------------------------------------------------

VARIABLES
    containers,     \* the chart containers of the document: id -> content
    clientWidth,    \* container.clientWidth
    headStyles,     \* number of <style> elements appended to document.head
    tooltips,       \* the elements of class "tooltip" in document.body, in order
    lastCall,       \* the last entry-point call: function, target, input, outcome
    readyState,     \* document.readyState when the profile script ran
    domLoaded,      \* DOMContentLoaded has been dispatched
    jwtToken,       \* localStorage holds a jwtToken
    location,       \* the page window.location.href was last set to
    serverData,     \* what the five queries returned, once a load has all five
    runs,           \* the loadProfile invocations: run -> state
    view,           \* style.display of the overlay, the error box and the content
    errorText,      \* errorText.textContent
    statsShown,     \* displayUserInfo and displayStats have filled the panel
    resizeTimer,    \* the timer of the resize listener: "none" or "pending"
    graphInits,     \* number of initializeGraphs invocations so far
    currentProfileData,  \* window.currentProfileData
    page,           \* the document that is loaded: "index.html" or "profile.html"
    userId,         \* localStorage holds a userId
    login,          \* the login page: error box, button, sign-in request
    calc            \* the last evaluation of a helper: function, arguments, value

renderVars == <<containers, clientWidth, headStyles, tooltips, lastCall>>

pageVars ==
    <<readyState, domLoaded, jwtToken, location, serverData, runs, view, errorText,
      statsShown, resizeTimer, graphInits, currentProfileData>>

otherVars == <<page, userId, login, calc>>

vars == <<renderVars, pageVars, otherVars>>

\* the containers of profile.html that initializeGraphs renders into
ContainerIds == {"xpProgressGraph", "xpByProjectGraph", "auditRatioGraph", "passFailGraph"}

\* ------------------------------------------------------------------------
\* Inputs
\* ------------------------------------------------------------------------

\* longest record list given to an entry point
MaxRecords == 2

Amounts == {0, 1}

Times == {1, 2}

Names == {None, Some("7")}

Widths == {200, 400}

Totals == {None, Some(0), Some(1), Some(3)}

Grades == {None, Some(0), Some(1)}

SeqsUpTo(S, n) == UNION {[1..m -> S] : m \in 0..n}

\* the query orders transactions by createdAt ascending
Chronological(tx) == \A i \in 1..Len(tx) - 1 : tx[i].createdAt <= tx[i + 1].createdAt

Transactions(amounts, times, names) ==
    {None} \cup
    {Some(tx) : tx \in {t \in SeqsUpTo([amount : amounts, createdAt : times, name : names],
                                       MaxRecords) : Chronological(t)}}

\* inputs of createXPProgressGraph: the timestamps vary, the names (which
\* only reach the tooltips) do not
XPInputs == Transactions(Amounts, Times, {None})

\* inputs of createXPByProjectGraph: the names vary, the timestamps (which it
\* never reads) do not
BarInputs == Transactions(Amounts, {1}, Names)

AuditInputs == {None} \cup {Some(a) : a \in [totalUp : Totals, totalDown : Totals]}

ResultInputs == {None} \cup {Some(r) : r \in SeqsUpTo([grade : Grades], MaxRecords)}

\* the container the entry points are exercised on
RenderTargets == {"xpProgressGraph"}

NoCall == [fn |-> "", id |-> "", input |-> None, threw |-> FALSE, zeroDiv |-> FALSE]

\* ------------------------------------------------------------------------
\* Entry points as operations on the document
\* ------------------------------------------------------------------------

\* The entry points are functions of the container's existence and width and
\* of the input alone; they are tabulated once over the inputs.
XPProgressOutcomes ==
    [e \in BOOLEAN |-> [w \in Widths |-> [tx \in XPInputs |->
        CreateXPProgressGraph(e, w, tx)]]]

XPByProjectOutcomes ==
    [e \in BOOLEAN |-> [w \in Widths |-> [tx \in BarInputs |->
        CreateXPByProjectGraph(e, w, tx)]]]

AuditRatioOutcomes ==
    [e \in BOOLEAN |-> [w \in Widths |-> [a \in AuditInputs |->
        CreateAuditRatioGraph(e, w, a)]]]

PassFailOutcomes ==
    [e \in BOOLEAN |-> [w \in Widths |-> [r \in ResultInputs |->
        CreatePassFailGraph(e, w, r)]]]

\* document.getElementById(id) finds an element
Exists(id) == id \in DOMAIN containers

\* the document after an entry point returned or threw
ApplyOutcome(id, out) ==
    /\ containers' = IF out.wrote THEN [containers EXCEPT ![id] = out.content]
                     ELSE containers
    /\ headStyles' = headStyles + out.styles

Call(fn, id, input, out) ==
    /\ ApplyOutcome(id, out)
    /\ lastCall' = [fn |-> fn, id |-> id, input |-> input, threw |-> out.threw,
                    zeroDiv |-> out.zeroDiv]
    /\ UNCHANGED <<clientWidth, tooltips>>
    /\ UNCHANGED <<pageVars, otherVars>>

\* bound on the <style> elements accumulated in document.head
MaxStyles == 2

RenderXPProgress(inputs) ==
    \E id \in RenderTargets, tx \in inputs :
        LET out == XPProgressOutcomes[Exists(id)][clientWidth][tx]
        IN  /\ headStyles + out.styles <= MaxStyles
            /\ Call("createXPProgressGraph", id, tx, out)

RenderXPByProject(inputs) ==
    \E id \in RenderTargets, tx \in inputs :
        Call("createXPByProjectGraph", id, tx,
             XPByProjectOutcomes[Exists(id)][clientWidth][tx])

RenderAuditRatio(inputs) ==
    \E id \in RenderTargets, a \in inputs :
        Call("createAuditRatioGraph", id, a,
             AuditRatioOutcomes[Exists(id)][clientWidth][a])

RenderPassFail(inputs) ==
    \E id \in RenderTargets, r \in inputs :
        Call("createPassFailGraph", id, r,
             PassFailOutcomes[Exists(id)][clientWidth][r])

\* the next animation timer of a bar chart fires (delays 0, 50, 100, ... ms)
BarTimer ==
    \E id \in DOMAIN containers :
        /\ containers[id].pendingBars > 0
        /\ containers' = [containers EXCEPT ![id] =
               GrowBar(@, Len(@.shapes) - @.pendingBars + 1)]
        /\ UNCHANGED <<clientWidth, headStyles, tooltips, lastCall>>
        /\ UNCHANGED <<pageVars, otherVars>>

\* ------------------------------------------------------------------------
\* Tooltip and hover handlers
\* ------------------------------------------------------------------------

\* showTooltip creating an element on every call
ShowTooltip_AlwaysCreate(tt, content) ==
    Append(tt, [content |-> content, show |-> TRUE])

\* showTooltip(event, content): document.querySelector('.tooltip') is the
\* first element of class "tooltip"; one is created when there is none
ShowTooltip(tt, content) ==
    LET all == IF tt = <<>> THEN <<[content |-> "", show |-> FALSE]>> ELSE tt
    IN  [all EXCEPT ![1] = [content |-> content, show |-> TRUE]]

\* hideTooltip()
HideTooltip(tt) ==
    IF tt = <<>> THEN tt ELSE [tt EXCEPT ![1].show = FALSE]

\* both handlers of a shape set its `opacity` attribute, except those of the
\* point markers of the time series
\* a mouseenter handler that leaves the opacity alone
EnterOpacity_Unset(shape) == shape.opacity

EnterOpacity(shape) == IF shape.dims THEN "0.8" ELSE shape.opacity

LeaveOpacity(shape) == IF shape.dims THEN "1" ELSE shape.opacity

\* mouseenter on shape i of the chart in container id
MouseEnter(id, i) ==
    /\ containers' = [containers EXCEPT ![id].shapes[i].opacity =
                          EnterOpacity(containers[id].shapes[i])]
    /\ tooltips' = ShowTooltip(tooltips, containers[id].shapes[i].tip[1])
    /\ UNCHANGED <<clientWidth, headStyles, lastCall>>
    /\ UNCHANGED <<pageVars, otherVars>>

\* mouseleave on shape i of the chart in container id
MouseLeave(id, i) ==
    /\ containers' = [containers EXCEPT ![id].shapes[i].opacity =
                          LeaveOpacity(containers[id].shapes[i])]
    /\ tooltips' = HideTooltip(tooltips)
    /\ UNCHANGED <<clientWidth, headStyles, lastCall>>
    /\ UNCHANGED <<pageVars, otherVars>>

PointerEnter ==
    \E id \in DOMAIN containers : \E i \in 1..Len(containers[id].shapes) : MouseEnter(id, i)

PointerLeave ==
    \E id \in DOMAIN containers : \E i \in 1..Len(containers[id].shapes) : MouseLeave(id, i)

\* the login page before a submit: error box hidden, button enabled, no
\* sign-in request in flight, none answered, the two fields empty; loading
\* is loginBtn.disabled, btnText and btnLoader are the style.display of the
\* two children of the button ("" while unset)
NoLogin ==
    [errorShown |-> FALSE, errorMessage |-> "", loading |-> FALSE, btnText |-> "",
     btnLoader |-> "", signIn |-> "none", response |-> None, identifier |-> <<>>,
     password |-> <<>>]

\* no helper evaluated yet
NoCalc == [fn |-> "", args |-> <<>>, value |-> <<>>]

\* the profile page is the loaded document and the login form is idle
InitOther ==
    /\ page = "profile.html"
    /\ userId = jwtToken
    /\ login = NoLogin
    /\ calc = NoCalc

\* the document before any script has rendered into it
InitDocument ==
    /\ containers = [id \in ContainerIds |-> EmptyContent]
    /\ clientWidth \in Widths
    /\ headStyles = 0
    /\ tooltips = <<>>
    /\ lastCall = NoCall

\* a page on which graphs.js is loaded and the profile script does not run
InitRender ==
    /\ InitDocument
    /\ readyState = "complete"
    /\ domLoaded = TRUE
    /\ jwtToken = TRUE
    /\ location = "profile.html"
    /\ serverData = None
    /\ runs = <<>>
    /\ view = [loadingOverlay |-> "", errorContainer |-> "", profileContent |-> ""]
    /\ errorText = ""
    /\ statsShown = FALSE
    /\ resizeTimer = "none"
    /\ graphInits = 0
    /\ currentProfileData = None
    /\ InitOther

NextRender ==
    \/ RenderXPProgress(XPInputs)
    \/ RenderXPByProject(BarInputs)
    \/ RenderAuditRatio(AuditInputs)
    \/ RenderPassFail(ResultInputs)
    \/ BarTimer

SpecRender == InitRender /\ [][NextRender]_vars

\* ------------------------------------------------------------------------
\* Hovering over rendered charts (SpecHover)
\* ------------------------------------------------------------------------

HoverXP ==
    {Some(<<[amount |-> 1, createdAt |-> 1, name |-> None],
            [amount |-> 1, createdAt |-> 2, name |-> None]>>)}

HoverBars ==
    {Some(<<[amount |-> 1, createdAt |-> 1, name |-> Some("7")],
            [amount |-> 1, createdAt |-> 1, name |-> None]>>)}

HoverAudit == {None, Some([totalUp |-> Some(3), totalDown |-> Some(1)])}

HoverResults == {Some(<<[grade |-> Some(1)], [grade |-> Some(0)]>>)}

NextHover ==
    \/ RenderXPProgress(HoverXP)
    \/ RenderXPByProject(HoverBars)
    \/ RenderAuditRatio(HoverAudit)
    \/ RenderPassFail(HoverResults)
    \/ BarTimer
    \/ PointerEnter
    \/ PointerLeave

SpecHover == InitRender /\ [][NextHover]_vars

\* C4: at most one tooltip element ever exists; hideTooltip never creates
\* it (an element appears only in a step that shows it), and once it exists
\* every later showTooltip writes to that element, never to a new one.
C4_TooltipSingleton ==
    /\ tooltips = <<>>
    /\ [][/\ Len(tooltips') <= 1
          /\ Len(tooltips') >= Len(tooltips)
          /\ Len(tooltips') > Len(tooltips) => tooltips'[1].show
          /\ \A id \in DOMAIN containers : \A i \in 1..Len(containers[id].shapes) :
                /\ MouseEnter(id, i) =>
                      tooltips' = <<[content |-> containers[id].shapes[i].tip[1],
                                     show |-> TRUE]>>
                /\ MouseLeave(id, i) => Len(tooltips') = Len(tooltips)]_vars

\* two shapes have been entered and one tooltip element serves both
C4_Witness ==
    /\ Len(tooltips) = 1
    /\ \E id \in DOMAIN containers : \E i, j \in 1..Len(containers[id].shapes) :
          /\ i # j
          /\ containers[id].shapes[i].opacity = "0.8"
          /\ containers[id].shapes[j].opacity = "0.8"

\* what the handlers of a hoverable shape do in one step
HoverStep(Entered(_), Left(_)) ==
    \A id \in DOMAIN containers : \A i \in 1..Len(containers[id].shapes) :
        LET shape == containers[id].shapes[i]
            after == containers'[id].shapes[i]
        IN  /\ MouseEnter(id, i) =>
                  /\ after.opacity = Entered(shape)
                  /\ tooltips'[1].show
            /\ MouseLeave(id, i) =>
                  /\ after.opacity = Left(shape)
                  /\ \A t \in 1..Len(tooltips') : ~tooltips'[t].show

\* C5 (as claimed): on every hoverable shape, pointer-enter sets the opacity
\* to 0.8 and shows the tooltip, pointer-leave sets it to 1 and hides the
\* tooltip.
C5_EveryShapeDims ==
    [][HoverStep(LAMBDA shape : "0.8", LAMBDA shape : "1")]_vars

\* C5 (amended): bars, donut slices and pie slices behave as claimed; on a
\* point marker of the time series pointer-enter shows the tooltip and
\* pointer-leave hides it, and neither changes the marker's opacity.
C5_HoverHandlers ==
    [][HoverStep(LAMBDA shape : IF shape.kind = "circle" THEN shape.opacity ELSE "0.8",
                 LAMBDA shape : IF shape.kind = "circle" THEN shape.opacity ELSE "1")]_vars

\* a bar has been entered and left, and the tooltip it showed is hidden
C5_Witness ==
    /\ Len(tooltips) = 1
    /\ ~tooltips[1].show
    /\ \E id \in DOMAIN containers : \E i \in 1..Len(containers[id].shapes) :
          /\ containers[id].shapes[i].kind = "rect"
          /\ containers[id].shapes[i].opacity = "1"

\* ------------------------------------------------------------------------
\* Properties of the entry points (SpecRender)
\* ------------------------------------------------------------------------

\* the chart an entry point draws and the message of its placeholder
ChartOf(fn) ==
    CASE fn = "createXPProgressGraph" -> "xpProgress"
      [] fn = "createXPByProjectGraph" -> "xpByProject"
      [] fn = "createAuditRatioGraph" -> "auditRatio"
      [] OTHER -> "passFail"

MessageOf(fn) ==
    CASE fn = "createXPProgressGraph" -> "No XP data available"
      [] fn = "createXPByProjectGraph" -> "No project data available"
      [] fn = "createAuditRatioGraph" -> "No audit data available"
      [] OTHER -> "No results data available"

Called == lastCall.fn # ""

\* the content of the container the last call was given
Target == containers[lastCall.id]

\* every number written to a primitive or a shape of the content
AllFinite(content) ==
    /\ \A i \in 1..Len(content.prims) :
          \A j \in 1..Len(content.prims[i].nums) : IsFinite(content.prims[i].nums[j])
    /\ \A i \in 1..Len(content.shapes) :
          \A j \in 1..Len(content.shapes[i].nums) : IsFinite(content.shapes[i].nums[j])

\* the last call was given a record list (not null) whose records satisfy P
ListInput(P(_)) ==
    /\ lastCall.input # None
    /\ \A i \in 1..Len(lastCall.input[1]) : P(lastCall.input[1][i])

IsTxCall == lastCall.fn \in {"createXPProgressGraph", "createXPByProjectGraph"}

\* the last call was given no data
NoDataInput ==
    /\ Called
    /\ \/ lastCall.input = None
       \/ lastCall.fn # "createAuditRatioGraph" /\ Len(lastCall.input[1]) = 0

\* the last call was given a binary split whose total is zero
ZeroTotalInput ==
    \/ /\ lastCall.fn = "createAuditRatioGraph"
       /\ lastCall.input # None
       /\ OrZero(lastCall.input[1].totalUp) + OrZero(lastCall.input[1].totalDown) = 0
    \/ /\ lastCall.fn = "createPassFailGraph"
       /\ ListInput(LAMBDA r : r.grade = None)

\* the last call was given data that is there but all zero
DegenerateInput ==
    \/ IsTxCall /\ ~NoDataInput /\ ListInput(LAMBDA t : t.amount = 0)
    \/ ZeroTotalInput /\ ~NoDataInput

\* C3 (as claimed): after a render call the container holds exactly one
\* child, and that child is the chart or the placeholder of the entry point
\* called last.
C3_ContainerHoldsLastOutput ==
    Called =>
        /\ ChildCount(Target) = 1
        /\ Target.tag = "svg" => Target.chart = ChartOf(lastCall.fn)
        /\ Target.tag = "p" => Target.text = MessageOf(lastCall.fn)

\* C6 (as claimed): an input that is present but all zero gives the
\* placeholder, without a throw, and no NaN or Infinity in the container.
C6_DegenerateGivesPlaceholder ==
    DegenerateInput =>
        /\ ~lastCall.threw
        /\ Target = Placeholder(MessageOf(lastCall.fn))
        /\ AllFinite(Target)

\* the time series given last has equal first and last timestamps
EqualTimestamps ==
    /\ lastCall.fn = "createXPProgressGraph"
    /\ ~NoDataInput
    /\ lastCall.input[1][1].createdAt = lastCall.input[1][Len(lastCall.input[1])].createdAt

\* C7 (as claimed): with equal minimum and maximum timestamps
\* createXPProgressGraph does not throw, evaluates no division by zero, and
\* draws every marker at one finite x.
C7_EqualTimestampsHandled ==
    EqualTimestamps =>
        /\ ~lastCall.threw
        /\ ~lastCall.zeroDiv
        /\ Target.chart = "xpProgress"
        /\ \A i \in 1..Len(Target.shapes) :
              /\ IsFinite(Target.shapes[i].nums[1])
              /\ Target.shapes[i].nums[1] = Target.shapes[1].nums[1]

\* C8: a binary split whose total is zero gives the placeholder, no slice,
\* and no division by the total.
C8_ZeroTotalPlaceholder ==
    ZeroTotalInput =>
        /\ ~lastCall.threw
        /\ ~lastCall.zeroDiv
        /\ Target = Placeholder(MessageOf(lastCall.fn))
        /\ Target.shapes = <<>>

C8_Witness ==
    /\ lastCall.fn = "createAuditRatioGraph"
    /\ lastCall.input = Some([totalUp |-> None, totalDown |-> Some(0)])
    /\ Target.tag = "p"

\* C9: with an existing container, an entry point given no data writes its
\* placeholder, builds no svg and does not throw.
C9_NoDataPlaceholder ==
    NoDataInput /\ Exists(lastCall.id) =>
        /\ ~lastCall.threw
        /\ Target = Placeholder(MessageOf(lastCall.fn))

C9_Witness ==
    /\ lastCall.fn = "createXPByProjectGraph"
    /\ lastCall.input = Some(<<>>)
    /\ Target = Placeholder("No project data available")

\* the point where the arc of a slice begins (the boundary at its start angle)
SliceBegin(shape) ==
    IF shape.kind = "pie" THEN <<shape.nums[7], shape.nums[8]>>
    ELSE <<shape.nums[5], shape.nums[6]>>

\* the 12-o'clock point of the circle of a binary-split chart
TopOfCircle ==
    <<NumDiv(I(clientWidth), I(2)),
      NumSub(NumDiv(I(PieHeight), I(2)),
             NumSub(NumDiv(MathMin(I(clientWidth), I(PieHeight)), I(2)), I(PieInset)))>>

\* C10 (as claimed): the first slice of a binary-split chart begins at the
\* 12-o'clock point of the circle.
C10_FirstSliceStartsAtTop ==
    \A id \in DOMAIN containers :
        containers[id].chart \in {"auditRatio", "passFail"}
        /\ containers[id].shapes # <<>>
        => SliceBegin(containers[id].shapes[1]) = TopOfCircle

\* ------------------------------------------------------------------------
\* The profile page (Spec)
\* ------------------------------------------------------------------------

\* the five queries of fetchAllProfileData
Fetches == {"userInfo", "xpTransactions", "auditData", "results", "progress"}

\* how a query in flight ends: data, HTTP 401 ("Authentication expired"),
\* another HTTP error status, the network error passed on by fetch
FetchResults == {"ok", "401", "http", "network"}

\* what the server holds for the user
Fixtures ==
    {[xpTransactions |-> <<[amount |-> 1, createdAt |-> 1, name |-> Some("7")],
                           [amount |-> 2, createdAt |-> 2, name |-> None]>>,
      auditData |-> Some([totalUp |-> Some(3), totalDown |-> Some(1)]),
      results |-> <<[grade |-> Some(1)], [grade |-> Some(0)]>>],
     [xpTransactions |-> <<[amount |-> 1, createdAt |-> 1, name |-> Some("7")]>>,
      auditData |-> Some([totalUp |-> Some(1), totalDown |-> Some(0)]),
      results |-> <<[grade |-> Some(1)]>>],
     [xpTransactions |-> <<>>, auditData |-> None, results |-> <<>>]}

\* showLoading(), showError(message), showContent()
LoadingView ==
    [loadingOverlay |-> "flex", errorContainer |-> "none", profileContent |-> "none"]

ErrorView_KeepsContent ==
    [loadingOverlay |-> "none", errorContainer |-> "flex", profileContent |-> "block"]

ErrorView ==
    [loadingOverlay |-> "none", errorContainer |-> "flex", profileContent |-> "none"]

ContentView ==
    [loadingOverlay |-> "none", errorContainer |-> "none", profileContent |-> "block"]

\* the display values before the script has set any
UnsetView == [loadingOverlay |-> "", errorContainer |-> "", profileContent |-> ""]

\* Promise.all over the five promises, joined as if every promise counted
\* as fulfilled once it is settled
JoinState_AllSettled(fetch) ==
    IF \E f \in Fetches : fetch[f] = "pending" THEN "pending" ELSE "fulfilled"

\* Promise.all over the five promises: rejected as soon as one is rejected,
\* fulfilled when all are fulfilled
JoinState(fetch) ==
    IF \E f \in Fetches : fetch[f] = "failed" THEN "rejected"
    ELSE IF \A f \in Fetches : fetch[f] = "ok" THEN "fulfilled"
    ELSE "pending"

\* the text showError is given in the catch block of loadProfile
ErrorMessage(kind) ==
    CASE kind = "401" ->
            "Failed to load profile data. Your session has expired. Please login again."
      [] kind = "network" ->
            "Failed to load profile data. Please check your internet connection."
      [] kind = "http" -> "Failed to load profile data. HTTP error! status: 500"
      [] OTHER -> "Failed to load profile data. No authentication token found"

\* a rejected join passes on the first failure only: what the other queries
\* returned or will return is dropped
Abandon(fetch) == [f \in Fetches |-> IF fetch[f] = "failed" THEN "failed" ELSE "dropped"]

\* whether a query is still in flight
InFlight(fetch) == \E f \in Fetches : fetch[f] = "pending"

\* loadProfile after the synchronous part, given the state of its queries and
\* the failure that came last: waiting, in the catch block, or past showContent
Continue(run, fetch, kind) ==
    CASE JoinState(fetch) = "rejected" ->
            [run |-> [pc |-> "error", fetch |-> Abandon(fetch), late |-> InFlight(fetch),
                      graphTimer |-> "none",
                      redirectTimer |-> IF kind = "401" THEN "pending" ELSE "none"],
             view |-> ErrorView, errorText |-> ErrorMessage(kind), stats |-> statsShown,
             data |-> {serverData}]
      [] JoinState(fetch) = "fulfilled" ->
            [run |-> [pc |-> "content", fetch |-> fetch, late |-> FALSE,
                      graphTimer |-> "pending",
                      redirectTimer |-> "none"],
             view |-> ContentView, errorText |-> errorText, stats |-> TRUE,
             data |-> IF serverData = None THEN {Some(d) : d \in Fixtures}
                      ELSE {serverData}]
      [] OTHER ->
            [run |-> [run EXCEPT !.fetch = fetch],
             view |-> view, errorText |-> errorText, stats |-> statsShown,
             data |-> {serverData}]

\* loadProfile up to its first await: showLoading, then the five queries are
\* issued; without a token each of them is rejected at once
StartLoad(token) ==
    LET fetch == [f \in Fetches |-> IF token THEN "pending" ELSE "failed"]
        run == [pc |-> "awaiting", fetch |-> fetch, late |-> FALSE, graphTimer |-> "none",
                redirectTimer |-> "none"]
    IN  IF token
        THEN [run |-> run, view |-> LoadingView, errorText |-> ""]
        ELSE [run |-> [run EXCEPT !.pc = "error"], view |-> ErrorView,
              errorText |-> ErrorMessage("token")]

\* the state after the profile script has run top to bottom
Init ==
    /\ InitDocument
    /\ readyState \in {"loading", "interactive", "complete"}
    /\ domLoaded = (readyState = "complete")
    /\ jwtToken \in BOOLEAN
    /\ location = IF jwtToken THEN "profile.html" ELSE "index.html"
    /\ serverData = None
    /\ runs = IF readyState = "loading" THEN <<>> ELSE <<StartLoad(jwtToken).run>>
    /\ view = IF readyState = "loading" THEN UnsetView ELSE StartLoad(jwtToken).view
    /\ errorText = IF readyState = "loading" THEN "" ELSE StartLoad(jwtToken).errorText
    /\ statsShown = FALSE
    /\ resizeTimer = "none"
    /\ graphInits = 0
    /\ currentProfileData = None
    /\ InitOther

\* DOMContentLoaded: the listener of line 269 calls loadProfile, and so does
\* the listener of line 276 when the script ran while the document was loading
DOMContentLoaded ==
    /\ ~domLoaded
    /\ domLoaded' = TRUE
    /\ LET s == StartLoad(jwtToken)
       IN  /\ runs' = runs \o (IF readyState = "loading" THEN <<s.run, s.run>>
                               ELSE <<s.run>>)
           /\ view' = s.view
           /\ errorText' = IF jwtToken THEN errorText ELSE s.errorText
    /\ UNCHANGED <<readyState, jwtToken, location, serverData, statsShown, resizeTimer,
                   graphInits, currentProfileData>>
    /\ UNCHANGED <<renderVars, otherVars>>

\* a query of a run whose join is still open ends; loadProfile resumes when
\* this settles the join
FetchComplete ==
    \E r \in 1..Len(runs), f \in Fetches, result \in FetchResults :
        /\ runs[r].pc = "awaiting"
        /\ runs[r].fetch[f] = "pending"
        /\ LET fetch == [runs[r].fetch EXCEPT
                            ![f] = IF result = "ok" THEN "ok" ELSE "failed"]
               c == Continue(runs[r], fetch, result)
           IN  /\ runs' = [runs EXCEPT ![r] = c.run]
               /\ view' = c.view
               /\ errorText' = c.errorText
               /\ statsShown' = c.stats
               /\ serverData' \in c.data
        /\ jwtToken' = (jwtToken /\ result # "401")
        /\ location' = IF result = "401" THEN "index.html" ELSE location
        /\ UNCHANGED <<readyState, domLoaded, resizeTimer, graphInits,
                       currentProfileData>>
        /\ UNCHANGED <<renderVars, otherVars>>

\* a query that outlived its join ends with HTTP 401 (any other end of such
\* a query changes nothing)
LateAuthFailure ==
    \E r \in 1..Len(runs) :
        /\ runs[r].late
        /\ jwtToken' = FALSE
        /\ location' = "index.html"
        /\ UNCHANGED <<readyState, domLoaded, serverData, runs, view, errorText,
                       statsShown, resizeTimer, graphInits, currentProfileData>>
        /\ UNCHANGED <<renderVars, otherVars>>

\* the calls of initializeGraphs(data)
GraphCalls(data) ==
    <<[fn |-> "createXPProgressGraph", id |-> "xpProgressGraph",
       input |-> Some(data.xpTransactions)],
      [fn |-> "createXPByProjectGraph", id |-> "xpByProjectGraph",
       input |-> Some(data.xpTransactions)],
      [fn |-> "createAuditRatioGraph", id |-> "auditRatioGraph",
       input |-> data.auditData],
      [fn |-> "createPassFailGraph", id |-> "passFailGraph",
       input |-> Some(data.results)]>>

\* what each of the four calls does on the profile page, tabulated over the
\* data and the width
GraphsOutcomes ==
    [d \in Fixtures |-> [w \in Widths |->
        <<CreateXPProgressGraph(TRUE, w, GraphCalls(d)[1].input),
          CreateXPByProjectGraph(TRUE, w, GraphCalls(d)[2].input),
          CreateAuditRatioGraph(TRUE, w, GraphCalls(d)[3].input),
          CreatePassFailGraph(TRUE, w, GraphCalls(d)[4].input)>>]]

\* the four calls in turn inside one try block: a call is made when no
\* call before it threw
RunGraphs(calls, outs) ==
    LET made == {i \in 1..Len(calls) : \A j \in 1..(i - 1) : ~outs[j].threw}
        last == CHOOSE i \in made : \A j \in made : j <= i
    IN  /\ containers' = [id \in DOMAIN containers |->
                             IF \E i \in made : calls[i].id = id /\ outs[i].wrote
                             THEN outs[CHOOSE i \in made : calls[i].id = id].content
                             ELSE containers[id]]
        /\ headStyles' = headStyles + Cardinality({i \in made : outs[i].styles = 1})
        /\ lastCall' = [fn |-> calls[last].fn, id |-> calls[last].id,
                        input |-> calls[last].input, threw |-> outs[last].threw,
                        zeroDiv |-> outs[last].zeroDiv]
        /\ graphInits' = graphInits + 1

\* initializeGraphs(data)
InitializeGraphs(data) == RunGraphs(GraphCalls(data), GraphsOutcomes[data][clientWidth])

\* the 100 ms timer set after showContent
GraphTimer ==
    \E r \in 1..Len(runs) :
        /\ runs[r].graphTimer = "pending"
        /\ runs' = [runs EXCEPT ![r].graphTimer = "none"]
        /\ InitializeGraphs(serverData[1])
        /\ UNCHANGED <<clientWidth, tooltips, otherVars>>
        /\ UNCHANGED <<readyState, domLoaded, jwtToken, location, serverData, view,
                       errorText, statsShown, resizeTimer, currentProfileData>>

\* the 2000 ms timer set in the catch block on "Authentication expired"
RedirectTimer ==
    \E r \in 1..Len(runs) :
        /\ runs[r].redirectTimer = "pending"
        /\ runs' = [runs EXCEPT ![r].redirectTimer = "none"]
        /\ location' = "index.html"
        /\ UNCHANGED <<readyState, domLoaded, jwtToken, serverData, view, errorText,
                       statsShown, resizeTimer, graphInits, currentProfileData>>
        /\ UNCHANGED <<renderVars, otherVars>>

\* a resize event: clearTimeout(resizeTimer); resizeTimer = setTimeout(..., 250)
ResizeEvent ==
    /\ resizeTimer' = "pending"
    /\ clientWidth' \in Widths
    /\ UNCHANGED <<containers, headStyles, tooltips, lastCall, otherVars>>
    /\ UNCHANGED <<readyState, domLoaded, jwtToken, location, serverData, runs, view,
                   errorText, statsShown, graphInits, currentProfileData>>

\* the resize timer fires: initializeGraphs(window.currentProfileData) when
\* that property is set
ResizeTimer ==
    /\ resizeTimer = "pending"
    /\ resizeTimer' = "none"
    /\ IF currentProfileData # None
       THEN InitializeGraphs(currentProfileData[1])
       ELSE UNCHANGED <<containers, headStyles, lastCall, graphInits>>
    /\ UNCHANGED <<clientWidth, tooltips, otherVars>>
    /\ UNCHANGED <<readyState, domLoaded, jwtToken, location, serverData, runs, view,
                   errorText, statsShown, currentProfileData>>

Next ==
    \/ DOMContentLoaded
    \/ FetchComplete
    \/ LateAuthFailure
    \/ GraphTimer
    \/ RedirectTimer
    \/ ResizeEvent
    \/ ResizeTimer
    \/ BarTimer

Spec == Init /\ [][Next]_vars

\* ------------------------------------------------------------------------
\* Properties of the profile page (Spec)
\* ------------------------------------------------------------------------

\* a load that has a failed query is in the error state and has set no graph
\* timer; a load past showContent has five queries that succeeded
LoadsAllOrNothing ==
    \A r \in 1..Len(runs) :
        /\ (\E f \in Fetches : runs[r].fetch[f] = "failed")
              => runs[r].pc = "error" /\ runs[r].graphTimer = "none"
        /\ (runs[r].pc = "content" \/ runs[r].graphTimer = "pending")
              => \A f \in Fetches : runs[r].fetch[f] = "ok"

\* the step in which a load enters the error state shows the error view and
\* renders nothing; the profile content comes up only in the step in which a
\* load gets its fifth success
LoadEndsInOneView ==
    /\ \A r \in 1..Len(runs') :
          (runs'[r].pc = "error" /\ (r > Len(runs) \/ runs[r].pc # "error"))
              => view' = ErrorView /\ graphInits' = graphInits /\ containers' = containers
    /\ (view'.profileContent = "block" /\ view.profileContent # "block")
          => \E r \in 1..Len(runs) :
                /\ runs[r].pc = "awaiting"
                /\ runs'[r].pc = "content"
                /\ \A f \in Fetches : runs'[r].fetch[f] = "ok"

\* C1: the profile load is all-or-nothing. Whatever the five queries return
\* and in whatever order they end, a load with a failed query ends in the
\* error state with the profile content hidden and without a chart being
\* rendered, and a load shows the profile content only when its five queries
\* all succeeded.
C1_AllOrNothing == []LoadsAllOrNothing /\ [][LoadEndsInOneView]_vars

\* a load whose fifth query failed after the other four had succeeded, with
\* the error view up
C1_Witness ==
    \E r \in 1..Len(runs) :
        /\ runs[r].pc = "error"
        /\ ~runs[r].late
        /\ Cardinality({f \in Fetches : runs[r].fetch[f] = "failed"}) = 1
        /\ jwtToken
        /\ view = ErrorView

\* C2: after a load has succeeded, the resize timer running out re-renders
\* the four charts.
C2_ResizeRerenders ==
    [][(/\ resizeTimer = "pending"
        /\ resizeTimer' = "none"
        /\ \E r \in 1..Len(runs) : runs[r].pc = "content")
          => graphInits' = graphInits + 1]_vars

\* ------------------------------------------------------------------------
\* The helpers of graphs.js and of the profile script, evaluated one at a
\* time on inputs of their own (SpecCalc)
\* ------------------------------------------------------------------------

\* largest value of a slice
MaxCount == 10

\* the angle of a slice that spans half a turn at most
SliceAngleDbl_HalfTurn(value, total) == DblMulNat(DblDivNat(value, total), 180)

\* `(value / total) * 360` as the engine computes it, for a natural value
\* and a natural total > 0
SliceAngleDbl(value, total) == DblMulNat(DblDivNat(value, total), 360)

\* the slices.forEach loop as the engine computes it: the start and end
\* angle of every slice that is drawn, `currentAngle += slice.angle` after
\* each
RECURSIVE SliceArcs(_, _, _)
SliceArcs(values, total, currentAngle) ==
    IF values = <<>> THEN <<>>
    ELSE LET endAngle == DblAdd(currentAngle, SliceAngleDbl(Head(values), total))
         IN  IF Head(values) > 0
             THEN <<[startAngle |-> currentAngle, endAngle |-> endAngle]>>
                  \o SliceArcs(Tail(values), total, endAngle)
             ELSE SliceArcs(Tail(values), total, currentAngle)

\* the angles of a binary split of (a, b): upAngle and downAngle (passAngle
\* and failAngle), and the arcs drawn from `currentAngle = -90`
SplitAngles(a, b) ==
    [angle |-> <<SliceAngleDbl(a, a + b), SliceAngleDbl(b, a + b)>>,
     arcs |-> SliceArcs(<<a, b>>, a + b, DblOfInt(-90))]

\* a helper is called while no call is in progress, and computes its value:
\* nothing of the document changes
Evaluate(fn, args, value) ==
    /\ calc = NoCalc
    /\ calc' = [fn |-> fn, args |-> args, value |-> value]
    /\ UNCHANGED <<renderVars, pageVars, page, userId, login>>

\* the call returns
Return ==
    /\ calc # NoCalc
    /\ calc' = NoCalc
    /\ UNCHANGED <<renderVars, pageVars, page, userId, login>>

\* the pairs of slice values that pass the `total === 0` guards
SplitPairs == {p \in (0..MaxCount) \X (0..MaxCount) : p[1] + p[2] > 0}

EvalSplitAngles ==
    \E p \in SplitPairs : Evaluate("splitAngles", p, SplitAngles(p[1], p[2]))

\* the angles the slice helpers are called with: a start angle in degrees
\* and a span in tenths of a degree
SliceInputs == {"pie", "donut"} \X {-90, 0} \X {0, 900, 1799, 1800, 1801, 2700, 3600}

\* createPieSlice(100, 150, 60, start, end) or
\* createDonutSlice(100, 150, 60, 36, start, end)
SlicePath(kind, start, tenths) ==
    LET startAngle == I(start)
        endAngle == Fin(10 * start + tenths, 10)
    IN  IF kind = "donut"
        THEN CreateDonutSlice(I(100), I(150), I(60), I(36), startAngle, endAngle)
        ELSE CreatePieSlice(I(100), I(150), I(60), startAngle, endAngle)

EvalSlicePath ==
    \E q \in SliceInputs : Evaluate("slicePath", q, SlicePath(q[1], q[2], q[3]))

\* Math.PI
MathPI == Dbl(1, <<11544, 10376, 2029, 201>>, -51)

\* the cosine the engine returns for the double nearest to pi / 2:
\* 6.123233995736766e-17
CosHalfPi == Dbl(1, <<23559, 26152, 6296, 141>>, -106)

\* Math.cos at 0, +-pi/2 and +-pi (the doubles nearest to them)
MathCos(x) ==
    CASE x = DblZero -> DblOfInt(1)
      [] x.m = MathPI.m /\ x.e = MathPI.e - 1 -> CosHalfPi
      [] x.m = MathPI.m /\ x.e = MathPI.e -> DblOfInt(-1)

\* Math.sin at 0, +-pi/2 and +-pi: sin(pi) is 1.2246467991473532e-16
MathSin(x) ==
    CASE x = DblZero -> DblZero
      [] x.m = MathPI.m /\ x.e = MathPI.e - 1 -> DblOfInt(x.s)
      [] x.m = MathPI.m /\ x.e = MathPI.e -> Dbl(x.s, CosHalfPi.m, CosHalfPi.e + 1)

\* a conversion that takes the sine for x and the cosine for y
PolarToCartesianDbl_Swapped(cx, cy, radius, angle) ==
    LET angleRad == DblOverNat(DblMul(DblOfInt(angle - 90), MathPI), 180)
    IN  [x |-> DblAdd(cx, DblMul(radius, MathSin(angleRad))),
         y |-> DblAdd(cy, DblMul(radius, MathCos(angleRad)))]

\* polarToCartesian(cx, cy, radius, angle) as the engine computes it, for a
\* whole number of quarter turns
PolarToCartesianDbl(cx, cy, radius, angle) ==
    LET angleRad == DblOverNat(DblMul(DblOfInt(angle - 90), MathPI), 180)
    IN  [x |-> DblAdd(cx, DblMul(radius, MathCos(angleRad))),
         y |-> DblAdd(cy, DblMul(radius, MathSin(angleRad)))]

\* the circle of a donut or pie chart in a container of the given width:
\* centerX, centerY, radius
ChartCircle(width) ==
    <<DblScale(DblOfInt(width), -1), DblScale(DblOfInt(PieHeight), -1),
      DblSub(DblScale(DblOfInt(IF width < PieHeight THEN width ELSE PieHeight), -1),
             DblOfInt(PieInset))>>

\* the inner circle of a donut: `radius * 0.6`
InnerCircle(c) == <<c[1], c[2], DblMul(c[3], DblDivNat(6, 10))>>

\* largest container width
MaxWidth == 120

\* the container widths of the charts whose circles are evaluated
ChartWidths == (81..MaxWidth) \cup {200, 301, 400, 1000}

\* the circles the charts call polarToCartesian with
ChartCircles ==
    {ChartCircle(w) : w \in ChartWidths} \cup {InnerCircle(ChartCircle(w)) : w \in ChartWidths}

\* circles about the origin, about (10, 10) and about (1, 1)
OtherCircles ==
    {<<DblZero, DblZero, DblOfInt(1)>>, <<DblOfInt(10), DblOfInt(10), DblOfInt(100)>>,
     <<DblOfInt(1), DblOfInt(1), DblOfInt(1)>>}

Circles == ChartCircles \cup OtherCircles

QuarterTurns == {0, 90, 180, 270}

EvalPolarToCartesian ==
    \E c \in Circles, angle \in QuarterTurns :
        Evaluate("polarToCartesian", <<c, angle>>, PolarToCartesianDbl(c[1], c[2], c[3], angle))

\* the arc of the only slice that is drawn when one of the two values is 0
FullTurnArc(values) == SliceArcs(values, values[1] + values[2], DblOfInt(-90))[1]

\* the whole number of degrees an angle of a full turn is: the turn starts
\* at -90 and ends 360 further
DegreesOf(angle) == CHOOSE k \in {-90, -90 + 360} : DblOfInt(k) = angle

\* `start` and `end` of createPieSlice and createDonutSlice on the circle c
\* (`innerStart` and `innerEnd` on the inner circle) as the engine computes
\* them
ArcEnds(c, arc) ==
    [start |-> PolarToCartesianDbl(c[1], c[2], c[3], DegreesOf(arc.endAngle)),
     end |-> PolarToCartesianDbl(c[1], c[2], c[3], DegreesOf(arc.startAngle))]

EvalFullSlice ==
    \E c \in ChartCircles, v \in 1..MaxCount :
        \E values \in {<<v, 0>>, <<0, v>>} :
            Evaluate("fullSlice", <<c, values>>,
                     [arc |-> FullTurnArc(values), ends |-> ArcEnds(c, FullTurnArc(values))])

\* an entry point called with the id of an element the document does not
\* have: what the call does
EvalMissingContainer ==
    \/ \E tx \in XPInputs :
          Evaluate("createXPProgressGraph", <<"missing", tx>>,
                   CreateXPProgressGraph(FALSE, clientWidth, tx))
    \/ \E tx \in BarInputs :
          Evaluate("createXPByProjectGraph", <<"missing", tx>>,
                   CreateXPByProjectGraph(FALSE, clientWidth, tx))
    \/ \E a \in AuditInputs :
          Evaluate("createAuditRatioGraph", <<"missing", a>>,
                   CreateAuditRatioGraph(FALSE, clientWidth, a))
    \/ \E r \in ResultInputs :
          Evaluate("createPassFailGraph", <<"missing", r>>,
                   CreatePassFailGraph(FALSE, clientWidth, r))

\* transactions.reduce((sum, t) => sum + t.amount, sum)
RECURSIVE Reduce(_, _)
Reduce(transactions, sum) ==
    IF transactions = <<>> THEN sum
    ELSE Reduce(Tail(transactions), sum + Head(transactions).amount)

\* calculateTotalXP(transactions)
CalculateTotalXP(transactions) == Reduce(transactions, 0)

\* largest number of records of a list
MaxSeries == 3

\* non-empty record lists in the order of the query, amounts of either sign
SeriesInputs ==
    {[i \in 1..Len(a) |-> [amount |-> a[i], createdAt |-> i, name |-> None]] :
        a \in SeqsUpTo({-1, 0, 1, 2}, MaxSeries) \ {<<>>}}

\* the series createXPProgressGraph draws and the total the statistics
\* panel shows, of the same records
EvalCumulative ==
    \E tx \in SeriesInputs :
        Evaluate("dataPoints", tx,
                 [dataPoints |-> DataPoints(tx), totalXP |-> CalculateTotalXP(tx)])

\* largest number of records of a short list of project records
MaxProjectRecords == 3

\* sixteen project names, none of them an array index
ProjectNames ==
    <<"p01", "p02", "p03", "p04", "p05", "p06", "p07", "p08",
      "p09", "p10", "p11", "p12", "p13", "p14", "p15", "p16">>

\* one record per project name, project i with the amount amount(i)
OnePerProject(amount(_)) ==
    [i \in 1..Len(ProjectNames) |->
        [amount |-> amount(i), createdAt |-> 1, name |-> Some(ProjectNames[i])]]

\* record lists for the aggregation: all short lists over the names "a" and
\* "7" with amounts of either sign, and lists of sixteen projects (one more
\* than the chart shows) with equal amounts, with rising amounts, with one
\* negative amount, with the amounts 1 to 10, and with no amount but 0
ProjectInputs ==
    {tx \in SeqsUpTo([amount : {-1, 1}, createdAt : {1}, name : {Some("a"), Some("7")}],
                     MaxProjectRecords) : tx # <<>>}
    \cup {OnePerProject(LAMBDA i : 1), OnePerProject(LAMBDA i : i),
          OnePerProject(LAMBDA i : (i % 3) + 1),
          OnePerProject(LAMBDA i : IF i = 1 THEN -1 ELSE 1),
          OnePerProject(LAMBDA i : IF i = Len(ProjectNames) THEN -1 ELSE 1),
          OnePerProject(LAMBDA i : IF i <= 10 THEN i ELSE 1),
          OnePerProject(LAMBDA i : 0)}

EvalSortedProjects ==
    \E tx \in ProjectInputs : Evaluate("sortedProjects", tx, SortedProjects(tx))

\* the bars createXPByProjectGraph draws
EvalBars ==
    \E tx \in ProjectInputs :
        Evaluate("bars", tx,
                 CreateXPByProjectGraph(TRUE, clientWidth, Some(tx)).content.shapes)

NextCalc ==
    \/ EvalSplitAngles
    \/ EvalBars
    \/ EvalSortedProjects
    \/ EvalCumulative
    \/ EvalPolarToCartesian
    \/ EvalSlicePath
    \/ EvalFullSlice
    \/ EvalMissingContainer
    \/ Return

\* a page on which graphs.js is loaded and no helper has been called
InitCalc == InitRender /\ clientWidth = 200

SpecCalc == InitCalc /\ [][NextCalc]_vars

\* ------------------------------------------------------------------------
\* Properties of the helpers (SpecCalc)
\* ------------------------------------------------------------------------

\* |x - num / den| <= 2^-p, for a double x >= 0 and naturals num, den > 0
DblWithin(x, num, den, p) ==
    LET k == IF -x.e > p THEN -x.e ELSE p
        gap == BigDiff(BigShl(BigTrim(BigMulNat(x.m, den, 0)), x.e + k),
                       BigShl(BigOfNat(num), k))
    IN  ~BigLt(BigShl(BigOfNat(den), k - p), gap)

\* x * b = y * a exactly, for doubles x, y >= 0 and naturals a, b
SameRatio(x, y, a, b) ==
    LET e == IF x.e < y.e THEN x.e ELSE y.e
    IN  BigShl(BigTrim(BigMulNat(x.m, b, 0)), x.e - e)
        = BigShl(BigTrim(BigMulNat(y.m, a, 0)), y.e - e)

\* the second slice starts at the angle where the first ends
Contiguous(arcs) == \A i \in 1..Len(arcs) - 1 : arcs[i + 1].startAngle = arcs[i].endAngle

\* C11 (as claimed): for every pair (a, b) of non-negative values with
\* a + b > 0 the two spans sum to exactly 360 degrees and are in the ratio
\* a : b, and the second slice starts exactly where the first ends.
C11_SpansExact ==
    calc.fn = "splitAngles" =>
        LET a == calc.args[1]
            b == calc.args[2]
            span == calc.value.angle
        IN  /\ DblAdd(span[1], span[2]) = DblOfInt(360)
            /\ SameRatio(span[1], span[2], a, b)
            /\ Contiguous(calc.value.arcs)

\* C11 (amended): for every pair (a, b) of non-negative integers with
\* 0 < a + b <= 2^53 the sum of the two spans differs from 360 degrees by at
\* most 2^-44 (one unit in the last place of 360), each span differs from
\* its exact share 360 * a / (a + b) by at most 2^-43, the spans of (3, 1)
\* are exactly 270 and 90, and the second slice starts exactly where the
\* first ends.
C11_SpansWithinUlp ==
    calc.fn = "splitAngles" =>
        LET a == calc.args[1]
            b == calc.args[2]
            span == calc.value.angle
        IN  /\ DblWithin(DblAdd(span[1], span[2]), 360, 1, 44)
            /\ DblWithin(span[1], 360 * a, a + b, 43)
            /\ DblWithin(span[2], 360 * b, a + b, 43)
            /\ (a = 3 /\ b = 1) => span = <<DblOfInt(270), DblOfInt(90)>>
            /\ Contiguous(calc.value.arcs)

\* the spans of (3, 10) have been computed: two slices are drawn and the
\* sum of the spans is not 360
C11_Witness ==
    /\ calc.fn = "splitAngles"
    /\ calc.args = <<3, 10>>
    /\ Len(calc.value.arcs) = 2
    /\ DblAdd(calc.value.angle[1], calc.value.angle[2]) # DblOfInt(360)

\* C12: createPieSlice and createDonutSlice set the large-arc flag to 1
\* exactly when endAngle - startAngle is greater than 180 degrees and to 0
\* otherwise (a span of exactly 180 gets 0), and the inner arc of a donut
\* slice carries the same flag as its outer arc.
C12_LargeArcFlag ==
    calc.fn = "slicePath" =>
        LET flags == calc.value.flags
        IN  /\ flags[1] = (IF calc.args[3] > 1800 THEN "1" ELSE "0")
            /\ Len(flags) = (IF calc.args[1] = "donut" THEN 2 ELSE 1)
            /\ \A i \in 1..Len(flags) : flags[i] = flags[1]

\* a donut slice of exactly half a turn has been built, with flag 0 on both
\* arcs
C12_Witness ==
    /\ calc.fn = "slicePath"
    /\ calc.args[1] = "donut"
    /\ calc.args[3] = 1800
    /\ calc.value.flags = <<"0", "0">>

\* the top-most, right-most, bottom-most and left-most point of a circle
\* <<cx, cy, r>>, for the angles 0, 90, 180 and 270
CardinalPoint(c, angle) ==
    CASE angle = 0 -> [x |-> c[1], y |-> DblSub(c[2], c[3])]
      [] angle = 90 -> [x |-> DblAdd(c[1], c[3]), y |-> c[2]]
      [] angle = 180 -> [x |-> c[1], y |-> DblAdd(c[2], c[3])]
      [] angle = 270 -> [x |-> DblSub(c[1], c[3]), y |-> c[2]]

\* C13 (as claimed): polarToCartesian(cx, cy, r, 0) returns the top-most
\* point of the circle (x = cx, y = cy - r), and the angles 90, 180 and 270
\* return the right-most, bottom-most and left-most points.
C13_CardinalPointsExact ==
    calc.fn = "polarToCartesian" => calc.value = CardinalPoint(calc.args[1], calc.args[2])

\* C13 (amended): at 0, 90, 180 and 270 the coordinate along the axis is
\* exactly that of the top-most, right-most, bottom-most and left-most
\* point, and the other coordinate differs from the centre's by at most
\* r * 2^-51; for the circles the charts draw the four points are exact.
C13_CardinalPointsRounded ==
    calc.fn = "polarToCartesian" =>
        LET c == calc.args[1]
            angle == calc.args[2]
            point == CardinalPoint(c, angle)
            off == DblScale(c[3], -51)
        IN  /\ angle \in {0, 180} =>
                  /\ calc.value.y = point.y
                  /\ DblAbsLe(DblSub(calc.value.x, point.x), off)
            /\ angle \in {90, 270} =>
                  /\ calc.value.x = point.x
                  /\ DblAbsLe(DblSub(calc.value.y, point.y), off)
            /\ c \in ChartCircles => calc.value = point

\* the top-most point of the circle of a chart 200 wide has been computed:
\* (100, 90)
C13_Witness ==
    /\ calc.fn = "polarToCartesian"
    /\ calc.args = <<ChartCircle(200), 0>>
    /\ calc.value = [x |-> DblOfInt(100), y |-> DblOfInt(90)]

\* C14: for every non-empty chronological record list the cumulative
\* series has one point per record, each point carries the sum of the
\* amounts up to its record, the series is non-decreasing when all amounts
\* are non-negative, and its last value is the sum of all amounts, the total
\* calculateTotalXP returns.
C14_CumulativeSeries ==
    calc.fn = "dataPoints" =>
        LET tx == calc.args
            dp == calc.value.dataPoints
            n == Len(tx)
        IN  /\ Len(dp) = n
            /\ dp[1].xp = tx[1].amount
            /\ \A i \in 2..n : dp[i].xp = dp[i - 1].xp + tx[i].amount
            /\ (\A i \in 1..n : tx[i].amount >= 0) =>
                  \A i \in 1..n - 1 : dp[i].xp <= dp[i + 1].xp
            /\ dp[n].xp = calc.value.totalXP

\* the series of three records of amounts 1, 0 and 2 has been built: it
\* rises to 3, the total of the statistics panel
C14_Witness ==
    /\ calc.fn = "dataPoints"
    /\ [i \in 1..Len(calc.args) |-> calc.args[i].amount] = <<1, 0, 2>>
    /\ [i \in 1..Len(calc.args) |-> calc.value.dataPoints[i].xp] = <<1, 1, 3>>
    /\ calc.value.totalXP = 3

\* the label of record i, the labels of a list, the total of a label and the
\* position at which a label first occurs
LabelOf(tx, i) == IF tx[i].name = None THEN "Unknown" ELSE tx[i].name[1]

Labels(tx) == {LabelOf(tx, i) : i \in 1..Len(tx)}

RECURSIVE TotalOf(_, _, _)
TotalOf(tx, label, i) ==
    IF i = 0 THEN 0
    ELSE TotalOf(tx, label, i - 1) + (IF LabelOf(tx, i) = label THEN tx[i].amount ELSE 0)

FirstOccurrence(tx, label) ==
    CHOOSE i \in 1..Len(tx) : LabelOf(tx, i) = label /\ \A j \in 1..(i - 1) : LabelOf(tx, j) # label

RECURSIVE SumTotals(_, _)
SumTotals(entries, i) == IF i = 0 THEN 0 ELSE SumTotals(entries, i - 1) + entries[i][2]

\* the displayed entries are groups of the input with their totals, at most
\* 15 of them, those with the largest totals, in descending order
TopGroups(tx, shown) ==
    /\ Len(shown) = (IF Cardinality(Labels(tx)) < 15 THEN Cardinality(Labels(tx)) ELSE 15)
    /\ \A i \in 1..Len(shown) :
          /\ shown[i][1] \in Labels(tx)
          /\ shown[i][2] = TotalOf(tx, shown[i][1], Len(tx))
    /\ \A i, j \in 1..Len(shown) : i # j => shown[i][1] # shown[j][1]
    /\ \A i \in 1..Len(shown) - 1 : shown[i][2] >= shown[i + 1][2]
    /\ \A label \in Labels(tx) \ {shown[i][1] : i \in 1..Len(shown)} :
          \A i \in 1..Len(shown) : TotalOf(tx, label, Len(tx)) <= shown[i][2]

\* C15: createXPByProjectGraph groups the records by label, sums the amounts
\* per group and displays at most 15 groups, those with the largest totals,
\* in descending order of total; groups with equal totals appear in the
\* order in which their labels first occurred in the input, whatever the
\* labels are.
C15_TopGroupsInInputOrder ==
    calc.fn = "sortedProjects" =>
        LET tx == calc.args
            shown == calc.value
        IN  /\ TopGroups(tx, shown)
            /\ \A i \in 1..Len(shown) - 1 :
                  shown[i][2] = shown[i + 1][2] =>
                      FirstOccurrence(tx, shown[i][1]) < FirstOccurrence(tx, shown[i + 1][1])

\* C16 (as claimed): for every grouping the sum of the displayed totals is
\* at most the sum of all group totals.
C16_DisplayedSumAtMostTotal ==
    calc.fn = "sortedProjects" =>
        SumTotals(calc.value, Len(calc.value)) <= CalculateTotalXP(calc.args)

\* C16 (amended): when no group total is negative, the sum of the displayed
\* totals is at most the sum of all group totals.
C16_DisplayedSumNonNegative ==
    (/\ calc.fn = "sortedProjects"
     /\ \A label \in Labels(calc.args) : TotalOf(calc.args, label, Len(calc.args)) >= 0)
    => SumTotals(calc.value, Len(calc.value)) <= CalculateTotalXP(calc.args)

\* sixteen groups without a negative total have been aggregated: fifteen
\* are displayed, and their sum is below the sum of all totals
C16_Witness ==
    /\ calc.fn = "sortedProjects"
    /\ Cardinality(Labels(calc.args)) = 16
    /\ \A label \in Labels(calc.args) : TotalOf(calc.args, label, Len(calc.args)) >= 0
    /\ Len(calc.value) = 15
    /\ SumTotals(calc.value, Len(calc.value)) < CalculateTotalXP(calc.args)

\* the color of the tier of the fraction value / maxValue, maxValue > 0
TierColor(value, maxValue) ==
    IF 10 * value > 7 * maxValue THEN "#48bb78"
    ELSE IF 10 * value > 4 * maxValue THEN "#667eea"
    ELSE IF 10 * value > 2 * maxValue THEN "#ed8936"
    ELSE "#f56565"

\* the largest total among the bars
LargestTotal(bars) ==
    CHOOSE v \in {bars[i].tip[2] : i \in 1..Len(bars)} :
        \A i \in 1..Len(bars) : bars[i].tip[2] <= v

\* C17: every bar has the color of the tier of its fraction of the largest
\* total, by strict thresholds: above 0.7 #48bb78, above 0.4 #667eea, above
\* 0.2 #ed8936, anything else #f56565; the bar of the largest group always
\* has the first color.
C17_BarColors ==
    calc.fn = "bars" =>
        \A i \in 1..Len(calc.value) :
            LET total == calc.value[i].tip[2]
                largest == LargestTotal(calc.value)
            IN  /\ largest > 0 => calc.value[i].fill = TierColor(total, largest)
                /\ total = largest => calc.value[i].fill = "#48bb78"

\* ------------------------------------------------------------------------
\* The login page and the session (SpecSession)
\* ------------------------------------------------------------------------

\* what the user has typed into a field, as a sequence of characters
Identifiers ==
    {<<>>, <<" ", " ", " ">>, <<"a", "b">>, <<" ", "a", "b", " ">>, <<"a", "b", "c">>,
     <<" ", "a", "b", "c", " ">>, <<"a", " ", "c">>}

Passwords ==
    {<<>>, <<"p">>, <<"p", "q">>, <<" ", " ", " ">>, <<"p", "q", "r">>,
     <<" ", "p", "q", " ">>}

\* String.prototype.trim()
RECURSIVE TrimStart(_)
TrimStart(s) == IF s # <<>> /\ Head(s) = " " THEN TrimStart(Tail(s)) ELSE s

RECURSIVE TrimEnd(_)
TrimEnd(s) ==
    IF s # <<>> /\ s[Len(s)] = " " THEN TrimEnd(SubSeq(s, 1, Len(s) - 1)) ELSE s

Trim(s) == TrimEnd(TrimStart(s))

ValidateInputs_LengthOnly(identifier, password) ==
    IF Len(identifier) <= 3 /\ Len(password) <= 3
    THEN [valid |-> TRUE, message |-> ""]
    ELSE [valid |-> FALSE, message |-> "Please enter both username/email and password"]

\* validateInputs(identifier, password): whether the inputs are valid, and
\* the message given to showError when they are not
ValidateInputs(identifier, password) ==
    CASE identifier = <<>> \/ password = <<>> ->
            [valid |-> FALSE, message |-> "Please enter both username/email and password"]
      [] Len(identifier) < 3 ->
            [valid |-> FALSE, message |-> "Username/email must be at least 3 characters"]
      [] Len(password) < 3 ->
            [valid |-> FALSE, message |-> "Password must be at least 3 characters"]
      [] OTHER -> [valid |-> TRUE, message |-> ""]

\* JavaScript values a token payload can parse to
JsNull == [t |-> "null", truthy |-> FALSE, sub |-> FALSE]

JsScalar(truthy) == [t |-> "scalar", truthy |-> truthy, sub |-> FALSE]

\* an object or array; sub: whether its property sub is truthy
JsObject(sub) == [t |-> "object", truthy |-> TRUE, sub |-> sub]

\* the parts of a token are given by the text atob yields for them; "%" is
\* a part that is not base64
Atob(part) == IF part = "%" THEN None ELSE Some(part)

\* JSON.parse(text): the value, or None when it throws
JSONParse(text) ==
    CASE text = "{\"sub\":7}" -> Some(JsObject(TRUE))
      [] text = "{\"sub\":0}" -> Some(JsObject(FALSE))
      [] text = "{}" -> Some(JsObject(FALSE))
      [] text = "[]" -> Some(JsObject(FALSE))
      [] text = "null" -> Some(JsNull)
      [] text = "0" -> Some(JsScalar(FALSE))
      [] text = "5" -> Some(JsScalar(TRUE))
      [] OTHER -> None

DecodeJWT_AnyParts(token) ==
    IF token = <<>> \/ Atob(token[Len(token)]) = None
       \/ JSONParse(Atob(token[Len(token)])[1]) = None
    THEN JsNull
    ELSE JSONParse(Atob(token[Len(token)])[1])[1]

\* decodeJWT(token), the token given as its parts between the dots: the
\* parsed payload, or null
DecodeJWT(token) ==
    IF Len(token) # 3 THEN JsNull
    ELSE IF Atob(token[2]) = None THEN JsNull
    ELSE IF JSONParse(Atob(token[2])[1]) = None THEN JsNull
    ELSE JSONParse(Atob(token[2])[1])[1]

\* the payloads of the three-part bodies
Payloads == {"{\"sub\":7}", "{\"sub\":0}", "{}", "[]", "null", "0", "5", "{", "", "%"}

\* what the sign-in endpoint sends as the body of an OK response
Bodies ==
    {<<"h", p, "s">> : p \in Payloads}
    \cup {<<"">>, <<"{\"sub\":7}">>, <<"h", "{\"sub\":7}">>, <<"h", "{\"sub\":7}", "s", "t">>}

\* how the sign-in request ends: fetch rejects, the body cannot be read, a
\* response with a status and, when the status is OK, a body
SignInResponses ==
    {[settled |-> "rejected", status |-> 0, bodyRead |-> FALSE, body |-> <<>>]}
    \cup {[settled |-> "fulfilled", status |-> st, bodyRead |-> FALSE, body |-> <<>>] :
            st \in {200, 301, 400, 401, 403, 404, 500, 503}}
    \cup {[settled |-> "fulfilled", status |-> st, bodyRead |-> TRUE, body |-> b] :
            st \in {200, 204}, b \in Bodies}

\* response.ok
ResponseOk(response) == response.status >= 200 /\ response.status <= 299

\* the message of the else branch of handleLogin
StatusMessage(status) ==
    CASE status = 401 -> "Invalid username/email or password"
      [] status = 403 -> "Access forbidden. Please contact support."
      [] status = 500 -> "Server error. Please try again later."
      [] status >= 400 /\ status < 500 -> "Invalid credentials. Please try again."
      [] OTHER -> "Login failed. Please check your credentials."

NetworkMessage == "Network error. Please check your connection and try again."

LoginPageTarget_Always(token) == "profile.html"

\* the first statement of auth.js: where the login page sends the browser
LoginPageTarget(token) == IF token THEN "profile.html" ELSE "index.html"

\* the first statement of the profile script
ProfilePageTarget(token) == IF token THEN "profile.html" ELSE "index.html"

\* handleLogin after the sign-in request has ended with the response: what
\* is stored, where the browser is sent, and the error box
HandleResponse(response) ==
    LET ok == response.settled = "fulfilled" /\ ResponseOk(response)
        decoded == DecodeJWT(response.body)
        stored == ok /\ response.bodyRead /\ decoded.truthy
    IN  [jwtToken |-> stored,
         userId |-> stored /\ decoded.sub,
         navigate |-> stored,
         error |-> ~stored,
         message |-> IF response.settled = "fulfilled" /\ ~ok
                     THEN StatusMessage(response.status)
                     ELSE NetworkMessage]

SetLoading_OnOnly(l, loading) ==
    IF loading
    THEN [l EXCEPT !.loading = TRUE, !.btnText = "none", !.btnLoader = "block"]
    ELSE l

\* setLoading(loading) on the login form l
SetLoading(l, loading) ==
    IF loading
    THEN [l EXCEPT !.loading = TRUE, !.btnText = "none", !.btnLoader = "block"]
    ELSE [l EXCEPT !.loading = FALSE, !.btnText = "block", !.btnLoader = "none"]

\* the login document is loaded and auth.js runs top to bottom; nothing of
\* the profile page is left
LoadLoginPage ==
    /\ page' = "index.html"
    /\ login' = NoLogin
    /\ location' = LoginPageTarget(jwtToken)
    /\ readyState' = "complete"
    /\ domLoaded' = TRUE
    /\ serverData' = None
    /\ runs' = <<>>
    /\ view' = UnsetView
    /\ errorText' = ""
    /\ statsShown' = FALSE
    /\ resizeTimer' = "none"
    /\ graphInits' = 0
    /\ currentProfileData' = None
    /\ UNCHANGED <<jwtToken, userId, calc, renderVars>>

\* the profile document is loaded and its script runs top to bottom
LoadProfilePage ==
    /\ page' = "profile.html"
    /\ login' = NoLogin
    /\ location' = ProfilePageTarget(jwtToken)
    /\ readyState' \in {"loading", "interactive", "complete"}
    /\ domLoaded' = (readyState' = "complete")
    /\ serverData' = None
    /\ runs' = IF readyState' = "loading" THEN <<>> ELSE <<StartLoad(jwtToken).run>>
    /\ view' = IF readyState' = "loading" THEN UnsetView ELSE StartLoad(jwtToken).view
    /\ errorText' = IF readyState' = "loading" THEN "" ELSE StartLoad(jwtToken).errorText
    /\ statsShown' = FALSE
    /\ resizeTimer' = "none"
    /\ graphInits' = 0
    /\ currentProfileData' = None
    /\ UNCHANGED <<jwtToken, userId, calc, renderVars>>

LoadPage(p) == IF p = "index.html" THEN LoadLoginPage ELSE LoadProfilePage

\* the browser carries out the navigation a script asked for
Navigate ==
    /\ location # page
    /\ LoadPage(location)

\* the user opens or reloads a page
OpenPage == \E p \in {"index.html", "profile.html"} : LoadPage(p)

\* the submit event of the login form: handleLogin up to its await.  While
\* the button is disabled the form cannot be submitted.
Submit ==
    \E i \in Identifiers, p \in Passwords :
        /\ page = "index.html"
        /\ ~login.loading
        /\ LET v == ValidateInputs(Trim(i), p)
           IN  login' = IF v.valid
                        THEN SetLoading([login EXCEPT !.identifier = i, !.password = p,
                                                      !.errorShown = FALSE,
                                                      !.signIn = "pending"], TRUE)
                        ELSE [login EXCEPT !.identifier = i, !.password = p,
                                           !.errorShown = TRUE,
                                           !.errorMessage = v.message]
        /\ UNCHANGED <<page, userId, calc, renderVars, pageVars>>

\* the sign-in request ends and handleLogin runs to its end
SignInSettles ==
    \E response \in SignInResponses :
        /\ page = "index.html"
        /\ login.signIn = "pending"
        /\ LET h == HandleResponse(response)
           IN  /\ login' = SetLoading([login EXCEPT
                                          !.signIn = "none",
                                          !.response = Some(response),
                                          !.errorShown = IF h.error THEN TRUE ELSE @,
                                          !.errorMessage = IF h.error THEN h.message
                                                           ELSE @],
                                       FALSE)
               /\ jwtToken' = (jwtToken \/ h.jwtToken)
               /\ userId' = (userId \/ h.userId)
               /\ location' = IF h.navigate THEN "profile.html" ELSE location
        /\ UNCHANGED <<page, calc, renderVars>>
        /\ UNCHANGED <<readyState, domLoaded, serverData, runs, view, errorText,
                       statsShown, resizeTimer, graphInits, currentProfileData>>

\* a click on the logout button of the profile page
HandleLogout ==
    /\ page = "profile.html"
    /\ jwtToken' = FALSE
    /\ userId' = FALSE
    /\ location' = "index.html"
    /\ UNCHANGED <<page, login, calc, renderVars>>
    /\ UNCHANGED <<readyState, domLoaded, serverData, runs, view, errorText,
                   statsShown, resizeTimer, graphInits, currentProfileData>>

\* the two pages and the navigation between them; the charts, which touch
\* neither localStorage nor the location, are left to Spec
NextSession ==
    \/ DOMContentLoaded
    \/ FetchComplete
    \/ LateAuthFailure
    \/ RedirectTimer
    \/ HandleLogout
    \/ Navigate
    \/ OpenPage
    \/ Submit
    \/ SignInSettles

SpecSession == Init /\ [][NextSession]_vars

\* ------------------------------------------------------------------------
\* Properties of the login page and the session (SpecSession)
\* ------------------------------------------------------------------------

\* the positions of a field value that hold something else than a space
NonSpaces(s) == {k \in 1..Len(s) : s[k] # " "}

\* the number of characters from the first to the last one that is not a space
TrimmedLen(s) ==
    IF NonSpaces(s) = {} THEN 0
    ELSE (CHOOSE k \in NonSpaces(s) : \A j \in NonSpaces(s) : j <= k)
         - (CHOOSE k \in NonSpaces(s) : \A j \in NonSpaces(s) : j >= k) + 1

\* a step of the login page that handles a submit event: the button is
\* enabled, the document stays, and the form is not the freshly loaded one
SubmitStep ==
    /\ page = "index.html"
    /\ page' = "index.html"
    /\ ~login.loading
    /\ login' # login
    /\ login' # NoLogin

\* C20: handleLogin sends the sign-in request only when the trimmed
\* identifier and the password have at least 3 characters each; otherwise
\* an error message is shown, the loading state is not entered and
\* localStorage is left as it was.
C20_ValidatedBeforeSubmission ==
    [][SubmitStep =>
        LET valid == TrimmedLen(login'.identifier) >= 3 /\ Len(login'.password) >= 3
        IN  /\ login'.signIn = "pending" => valid
            /\ ~valid => /\ login'.errorShown
                         /\ login'.errorMessage # ""
                         /\ ~login'.loading
                         /\ login'.signIn # "pending"
                         /\ jwtToken' = jwtToken
                         /\ userId' = userId]_vars

\* a submit whose identifier is long enough only with its spaces was refused
C20_Witness ==
    /\ page = "index.html"
    /\ login.identifier = <<" ", "a", "b", " ">>
    /\ login.password = <<"p", "q", "r">>
    /\ login.errorShown
    /\ login.errorMessage = "Username/email must be at least 3 characters"
    /\ ~login.loading
    /\ login.signIn = "none"

\* a step of the login page in which handleLogin resumes after its await
SettleStep ==
    /\ page = "index.html"
    /\ page' = "index.html"
    /\ login.signIn = "pending"
    /\ login'.signIn = "none"
    /\ login'.response # None

\* payload texts that are JSON for a value other than null
NonNullPayloads == {"{\"sub\":7}", "{\"sub\":0}", "{}", "[]", "0", "5"}

\* an OK response whose body has three parts and a payload that is JSON for
\* a value other than null
ValidToken(response) ==
    /\ response.settled = "fulfilled"
    /\ response.status \in 200..299
    /\ response.bodyRead
    /\ Len(response.body) = 3
    /\ response.body[2] \in NonNullPayloads

\* C19: handleLogin stores jwtToken and sends the browser to profile.html
\* only on an OK response whose body is a three-part token with a payload
\* that is not null; on every other outcome localStorage and the location
\* are left as they were and an error message is shown.
C19_TokenValidatedBeforeStorage ==
    [][SettleStep =>
        LET response == login'.response[1]
        IN  /\ (jwtToken' # jwtToken \/ userId' # userId \/ location' # location)
                  => ValidToken(response)
            /\ (jwtToken' /\ ~jwtToken) => location' = "profile.html"
            /\ ~ValidToken(response) =>
                  /\ jwtToken' = jwtToken
                  /\ userId' = userId
                  /\ location' = location
                  /\ login'.errorShown
                  /\ login'.errorMessage # ""]_vars

\* an OK response whose payload does not parse was refused
C19_Witness ==
    /\ page = "index.html"
    /\ login.response =
          Some([settled |-> "fulfilled", status |-> 200, bodyRead |-> TRUE,
                body |-> <<"h", "{", "s">>])
    /\ login.signIn = "none"
    /\ ~jwtToken
    /\ ~userId
    /\ location = "index.html"
    /\ login.errorShown
    /\ login.errorMessage = NetworkMessage

\* a step in which a load of the profile page goes to its catch block with
\* the "Authentication expired" error: its redirect timer is set
ExpiryStep ==
    /\ Len(runs') = Len(runs)
    /\ \E r \in 1..Len(runs) :
          runs[r].redirectTimer = "none" /\ runs'[r].redirectTimer = "pending"

\* a step in which the browser goes where a script has sent it
RedirectStep == location # page /\ page' = location

\* C18: when a query of the profile page ends with HTTP 401, jwtToken is
\* removed, the browser is sent to index.html and the load fails with the
\* session-expired message; a page the browser was sent to by a script
\* never sends it on, because a newly loaded login page redirects exactly
\* when jwtToken is present and a newly loaded profile page exactly when it
\* is absent.
C18_ExpiryWithoutRedirectLoop ==
    [][/\ ExpiryStep =>
            /\ ~jwtToken'
            /\ location' = "index.html"
            /\ errorText' = ErrorMessage("401")
       /\ RedirectStep => location' = page'
       /\ page' # page =>
            (location' # page' <=> IF page' = "index.html" THEN jwtToken' ELSE ~jwtToken')
      ]_vars

\* the login page, reached after a 401 took the token and left the userId,
\* stays
C18_Witness ==
    /\ page = "index.html"
    /\ location = "index.html"
    /\ ~jwtToken
    /\ userId
    /\ login = NoLogin

\* ------------------------------------------------------------------------
\* The resize listener with its timers and the clock (SpecResize)
\* ------------------------------------------------------------------------

\* the delay of the resize timer, in milliseconds
ResizeDelay == 250

\* largest number of timers the listener sets
MaxTimers == 3

\* In this specification resizeTimer is a record: handle, the value of the
\* variable resizeTimer of the script (0 while undefined); timers, the
\* active timers of the window, handle -> milliseconds left; sinceEvent,
\* the milliseconds since the last resize event, up to the delay; ran, the
\* number of callback runs since the last resize event; cancelled, the
\* number of timers cleared before they ran.
NoTimers ==
    [handle |-> 0, timers |-> <<>>, sinceEvent |-> 0, ran |-> 0, cancelled |-> 0]

\* a function without the argument id
Without(f, id) == [k \in DOMAIN f \ {id} |-> f[k]]

ClearTimeout_Keep(timers, handle) == timers

\* clearTimeout(handle): the timer is taken from the active timers, if it
\* is there
ClearTimeout(timers, handle) == Without(timers, handle)

\* setTimeout(callback, delay) with the handle the window gives it
SetTimeout(timers, handle, delay) ==
    [k \in DOMAIN timers \cup {handle} |-> IF k = handle THEN delay ELSE timers[k]]

\* the state after the profile script has run top to bottom, no timer set
InitResize ==
    /\ InitDocument
    /\ readyState \in {"loading", "interactive", "complete"}
    /\ domLoaded = (readyState = "complete")
    /\ jwtToken \in BOOLEAN
    /\ location = IF jwtToken THEN "profile.html" ELSE "index.html"
    /\ serverData = None
    /\ runs = IF readyState = "loading" THEN <<>> ELSE <<StartLoad(jwtToken).run>>
    /\ view = IF readyState = "loading" THEN UnsetView ELSE StartLoad(jwtToken).view
    /\ errorText = IF readyState = "loading" THEN "" ELSE StartLoad(jwtToken).errorText
    /\ statsShown = FALSE
    /\ resizeTimer = NoTimers
    /\ graphInits = 0
    /\ currentProfileData = None
    /\ InitOther

\* a resize event: clearTimeout(resizeTimer); resizeTimer = setTimeout(..., 250)
ResizeListener ==
    /\ resizeTimer.handle < MaxTimers
    /\ LET handle == resizeTimer.handle + 1
           cleared == ClearTimeout(resizeTimer.timers, resizeTimer.handle)
       IN  resizeTimer' =
              [handle |-> handle,
               timers |-> SetTimeout(cleared, handle, ResizeDelay),
               sinceEvent |-> 0,
               ran |-> 0,
               cancelled |-> IF resizeTimer.handle \in DOMAIN resizeTimer.timers
                                /\ resizeTimer.handle \notin DOMAIN cleared
                             THEN resizeTimer.cancelled + 1
                             ELSE resizeTimer.cancelled]
    /\ UNCHANGED <<renderVars, otherVars>>
    /\ UNCHANGED <<readyState, domLoaded, jwtToken, location, serverData, runs, view,
                   errorText, statsShown, graphInits, currentProfileData>>

\* a millisecond passes
Tick ==
    /\ resizeTimer.sinceEvent < ResizeDelay
          \/ \E id \in DOMAIN resizeTimer.timers : resizeTimer.timers[id] > 0
    /\ resizeTimer' =
          [resizeTimer EXCEPT
              !.timers = [id \in DOMAIN resizeTimer.timers |->
                             IF resizeTimer.timers[id] > 0
                             THEN resizeTimer.timers[id] - 1 ELSE 0],
              !.sinceEvent = IF @ < ResizeDelay THEN @ + 1 ELSE @]
    /\ UNCHANGED <<renderVars, otherVars>>
    /\ UNCHANGED <<readyState, domLoaded, jwtToken, location, serverData, runs, view,
                   errorText, statsShown, graphInits, currentProfileData>>

\* a timer whose delay has passed runs its callback:
\* initializeGraphs(window.currentProfileData) when that property is set
TimerCallback ==
    \E id \in DOMAIN resizeTimer.timers :
        /\ resizeTimer.timers[id] = 0
        /\ resizeTimer' = [resizeTimer EXCEPT !.timers = Without(@, id), !.ran = @ + 1]
        /\ IF currentProfileData # None
           THEN InitializeGraphs(currentProfileData[1])
           ELSE UNCHANGED <<containers, headStyles, lastCall, graphInits>>
        /\ UNCHANGED <<clientWidth, tooltips, otherVars>>
        /\ UNCHANGED <<readyState, domLoaded, jwtToken, location, serverData, runs, view,
                       errorText, statsShown, currentProfileData>>

NextResize ==
    \/ ResizeListener
    \/ Tick
    \/ TimerCallback

SpecResize == InitResize /\ [][NextResize]_vars

\* ------------------------------------------------------------------------
\* Properties of the resize listener (SpecResize)
\* ------------------------------------------------------------------------

\* at most one timer is active, and the callback has run at most once since
\* the last resize event
OneTimer ==
    /\ Cardinality(DOMAIN resizeTimer.timers) <= 1
    /\ resizeTimer.ran <= 1

\* a resize event leaves its own timer, with the full delay, as the only
\* active one; the callback runs only when the delay has passed since the
\* last resize event, and leaves no timer
DebounceStep ==
    /\ resizeTimer'.handle # resizeTimer.handle
          => /\ DOMAIN resizeTimer'.timers = {resizeTimer'.handle}
             /\ resizeTimer'.timers[resizeTimer'.handle] = ResizeDelay
    /\ resizeTimer'.ran = resizeTimer.ran + 1
          => /\ resizeTimer.sinceEvent >= ResizeDelay
             /\ DOMAIN resizeTimer'.timers = {}

\* C21: at most one resize timer is pending; every resize event cancels
\* the pending timer before it starts a new one; after a burst of resize
\* events the callback runs at most once, and only when the delay has
\* passed since the last event of the burst.
C21_ResizeDebounced == []OneTimer /\ [][DebounceStep]_vars

\* the callback has run once after a burst in which a pending timer was
\* cancelled
C21_Witness ==
    /\ resizeTimer.cancelled >= 1
    /\ resizeTimer.ran = 1
    /\ DOMAIN resizeTimer.timers = {}

\* ------------------------------------------------------------------------
\* Further properties of the helpers (SpecCalc)
\* ------------------------------------------------------------------------

\* C28: in a binary split with exactly one positive value the single slice
\* spans 360 degrees, and the two end points of its arc are distinct points.
C28_FullSliceEndsDistinct ==
    calc.fn = "fullSlice"
        => /\ DblSub(calc.value.arc.endAngle, calc.value.arc.startAngle) = DblOfInt(360)
           /\ calc.value.ends.start # calc.value.ends.end

\* the four entry points
EntryPoints ==
    {"createXPProgressGraph", "createXPByProjectGraph", "createAuditRatioGraph",
     "createPassFailGraph"}

\* C29: called with the id of an element that does not exist, each of the
\* four entry points returns without throwing and without touching the
\* document, for any dataset.
C29_MissingContainerIsSafe ==
    calc.fn \in EntryPoints
        => /\ ~calc.value.threw
           /\ ~calc.value.wrote
           /\ calc.value.styles = 0

\* ------------------------------------------------------------------------
\* Further properties of the profile page (Spec)
\* ------------------------------------------------------------------------

\* C22: whenever initializeGraphs runs, the view is the content view:
\* profile content displayed, loading overlay and error container hidden.
C22_GraphsOnlyInContentView ==
    [][graphInits' # graphInits => view = ContentView /\ view' = ContentView]_vars

\* C23: once DOMContentLoaded has been dispatched, loadProfile has been
\* started exactly once, whatever document.readyState was when the script
\* ran; before that, at most once.
C23_LoadProfileOnce ==
    /\ Len(runs) <= 1
    /\ domLoaded => Len(runs) = 1

\* the elements of the three views whose style.display is not "none"
Displayed == {e \in DOMAIN view : view[e] # "none"}

\* once loadProfile has been called, exactly one of the three elements is
\* displayed
OneViewDisplayed == runs # <<>> => Cardinality(Displayed) = 1

\* what a load shows in a step: a load that starts shows the loading
\* overlay, or the error box when it fails before its first await returns;
\* a load that leaves its await shows the error box or the profile content;
\* a load that has shown one of the two stays with it
RunShowsOneView ==
    \A r \in 1..Len(runs') :
        IF r > Len(runs)
        THEN \/ runs'[r].pc = "awaiting" /\ Displayed' = {"loadingOverlay"}
             \/ runs'[r].pc = "error" /\ Displayed' = {"errorContainer"}
        ELSE /\ runs[r].pc = "awaiting" /\ runs'[r].pc = "error"
                  => Displayed' = {"errorContainer"}
             /\ runs[r].pc = "awaiting" /\ runs'[r].pc = "content"
                  => Displayed' = {"profileContent"}
             /\ runs[r].pc # "awaiting" => runs'[r].pc = runs[r].pc

\* C24: once loadProfile has been called, exactly one of the loading
\* overlay, the error container and the profile content is displayed in
\* every state; every loadProfile run starts with the loading overlay and
\* ends with either the profile content or the error container, and a run
\* that has shown the error container never shows the profile content.
C24_ExactlyOneView == []OneViewDisplayed /\ [][RunShowsOneView]_vars

\* of two loads the first has ended with the error box and the second,
\* after it, with the profile content
C24_Witness ==
    /\ Len(runs) = 2
    /\ runs[1].pc = "error"
    /\ runs[2].pc = "content"
    /\ Displayed = {"profileContent"}

\* C26: when initializeGraphs runs, each of the four renderers is invoked,
\* whether or not a renderer before it threw: the last renderer invoked is
\* createPassFailGraph.
C26_AllRenderersInvoked ==
    [][graphInits' # graphInits => lastCall'.fn = "createPassFailGraph"]_vars

\* ------------------------------------------------------------------------
\* Further properties of the login page and the session (SpecSession)
\* ------------------------------------------------------------------------

\* C25: after any sequence of login, logout and expired-session events,
\* localStorage holds a userId only if it also holds a jwtToken.
C25_UserIdOnlyWithToken == userId => jwtToken

\* the button is disabled exactly while a sign-in request is in flight
DisabledWhileInFlight == login.loading <=> login.signIn = "pending"

\* the button becomes disabled only in a submit whose inputs are valid; when
\* handleLogin resumes after its await it leaves the button enabled, its
\* text shown and its loader hidden
ButtonStep ==
    /\ ~login.loading /\ login'.loading
          => /\ SubmitStep
             /\ TrimmedLen(login'.identifier) >= 3
             /\ Len(login'.password) >= 3
             /\ login'.btnText = "none"
             /\ login'.btnLoader = "block"
    /\ SettleStep
          => /\ ~login'.loading
             /\ login'.btnText = "block"
             /\ login'.btnLoader = "none"

\* C27: the login button is disabled exactly while a sign-in request is in
\* flight; it becomes disabled only after validation has passed, and when
\* handleLogin finishes, with whatever outcome, the button is enabled again
\* with its text shown and its loader hidden.
C27_ButtonDisabledWhileInFlight == []DisabledWhileInFlight /\ [][ButtonStep]_vars

\* the request was rejected by fetch and the button is enabled again
C27_Witness ==
    /\ page = "index.html"
    /\ login.response # None
    /\ login.response[1].settled = "rejected"
    /\ login.signIn = "none"
    /\ ~login.loading
    /\ login.btnText = "block"
    /\ login.btnLoader = "none"

====
